---- MODULE Spec2Model ----
(***************************************************************************)
(* Property-notice extractor backend (Express server, OCR / Gemini /       *)
(* geocoding services, Firestore persistence adapter).                     *)
(*                                                                         *)
(* Strings the code inspects character by character (dates, village names) *)
(* are sequences of one-character strings; Null is the JavaScript null /   *)
(* undefined of such a field.  Numbers that may be absent are records      *)
(* [some, v].  Short fixed texts (status words, error codes, districts)    *)
(* are TLA+ strings, "null" standing for null / undefined.                 *)
(***************************************************************************)
EXTENDS Integers, Sequences, FiniteSets, TLC

VARIABLES
    records,  \* Firestore collection property_notices: id -> document
    logs,     \* Firestore collection processing_logs: set of log documents
    issued,   \* number of uuidv4() identifiers handed out so far
    lissued,  \* number of processing-log documents created so far
    env,      \* process.env and the server's time zone
    rq,       \* the HTTP requests in flight: request slot -> request state
    gone      \* history: the ids for which deletePropertyNotice returned true

storeVars == <<records, logs, issued, lissued>>
vars == <<records, logs, issued, lissued, env, rq, gone>>

\* ---------------------------------------------------------------- bounds
\* identifiers uuidv4() may hand out in one run
MaxIds == 2
\* request slots (requests that may be in flight together)
NProcs == 1

Ids == 1..MaxIds
Procs == 1..NProcs

\* ------------------------------------------------------- JavaScript values
Null == <<"null">>
Truthy(s) == s # Null /\ s # <<>>
OrNull(s) == IF Truthy(s) THEN s ELSE Null

NoNum == [some |-> FALSE, v |-> 0]
Num(n) == [some |-> TRUE, v |-> n]
TruthyNum(x) == x.some /\ x.v # 0
OrNullNum(x) == IF TruthyNum(x) THEN x ELSE NoNum

TruthyAtom(a) == a # "null" /\ a # ""
OrNullAtom(a) == IF TruthyAtom(a) THEN a ELSE "null"

\* ------------------------------------------------------------ strings
Digits == <<"0", "1", "2", "3", "4", "5", "6", "7", "8", "9">>
IsDigit(c) == \E i \in 1..10 : Digits[i] = c
DigitVal(c) == (CHOOSE i \in 1..10 : Digits[i] = c) - 1
IsSpace(c) == c = " "

\* String.prototype.split with a one-character separator
RECURSIVE Split(_, _)
Split(s, sep) ==
    IF \A i \in 1..Len(s) : s[i] # sep
    THEN <<s>>
    ELSE LET k == CHOOSE i \in 1..Len(s) :
                      s[i] = sep /\ \A j \in 1..(i - 1) : s[j] # sep
         IN  <<SubSeq(s, 1, k - 1)>> \o Split(SubSeq(s, k + 1, Len(s)), sep)

RECURSIVE DropSpaces(_)
DropSpaces(s) ==
    IF s # <<>> /\ IsSpace(s[1]) THEN DropSpaces(Tail(s)) ELSE s

RECURSIVE DigitPrefixLen(_)
DigitPrefixLen(s) ==
    IF s # <<>> /\ IsDigit(s[1]) THEN 1 + DigitPrefixLen(Tail(s)) ELSE 0

RECURSIVE DigitsValue(_)
DigitsValue(s) ==
    IF s = <<>> THEN 0
    ELSE 10 * DigitsValue(SubSeq(s, 1, Len(s) - 1)) + DigitVal(s[Len(s)])

NaN == [nan |-> TRUE, v |-> 0]
\* parseInt(s): leading blanks, an optional sign, then the longest run of digits
ParseInt(s) ==
    LET t == DropSpaces(s)
        signed == t # <<>> /\ t[1] \in {"-", "+"}
        u == IF signed THEN Tail(t) ELSE t
        k == DigitPrefixLen(u)
        n == DigitsValue(SubSeq(u, 1, k))
    IN  IF k = 0 THEN NaN
        ELSE [nan |-> FALSE, v |-> IF signed /\ t[1] = "-" THEN 0 - n ELSE n]

\* n written with at least w digits
RECURSIVE Pad(_, _)
Pad(n, w) ==
    IF w <= 1 /\ n < 10 THEN <<Digits[n + 1]>>
    ELSE Pad(n \div 10, w - 1) \o <<Digits[(n % 10) + 1]>>

\* ------------------------------------------------------------ calendar
\* days between 1970-01-01 and the civil date y-m-d (proleptic Gregorian)
DaysFromCivil(y, m, d) ==
    LET yy == IF m <= 2 THEN y - 1 ELSE y
        era == yy \div 400
        yoe == yy - era * 400
        mp == IF m > 2 THEN m - 3 ELSE m + 9
        doy == ((153 * mp + 2) \div 5) + d - 1
        doe == yoe * 365 + (yoe \div 4) - (yoe \div 100) + doy
    IN  era * 146097 + doe - 719468

\* the civil date of day number z
CivilFromDays(z) ==
    LET zz == z + 719468
        era == zz \div 146097
        doe == zz - era * 146097
        yoe == (doe - (doe \div 1460) + (doe \div 36524) - (doe \div 146096)) \div 365
        doy == doe - (365 * yoe + (yoe \div 4) - (yoe \div 100))
        mp == (5 * doy + 2) \div 153
        d == doy - ((153 * mp + 2) \div 5) + 1
        m == IF mp < 10 THEN mp + 3 ELSE mp - 9
        y == yoe + era * 400 + (IF m <= 2 THEN 1 ELSE 0)
    IN  [y |-> y, m |-> m, d |-> d]

MinutesPerDay == 1440

\* new Date(year, month, day): midnight of that day in the server's local time,
\* as minutes since the epoch (UTC).  tz is the server's offset from UTC in
\* minutes, east positive.  month is 0-based; day and month overflow carry.
NewDateLocal(year, month, day, tz) ==
    IF year.nan \/ month.nan \/ day.nan
    THEN [valid |-> FALSE, t |-> 0]
    ELSE LET yy == IF 0 <= year.v /\ year.v <= 99 THEN 1900 + year.v ELSE year.v
             ym == yy + (month.v \div 12)
             mn == month.v % 12
             dayNum == DaysFromCivil(ym, mn + 1, 1) + day.v - 1
         IN  [valid |-> TRUE, t |-> dayNum * MinutesPerDay - tz]

\* date.toISOString().split('T')[0]
ToISODate(t) ==
    LET c == CivilFromDays(t \div MinutesPerDay)
    IN  Pad(c.y, 4) \o <<"-">> \o Pad(c.m, 2) \o <<"-">> \o Pad(c.d, 2)

\* ------------------------------------------------- stored notice_date
NullDate == [kind |-> "null", t |-> 0, s |-> <<>>]
DateAt(t) == [kind |-> "date", t |-> t, s |-> <<>>]
InvalidDate == [kind |-> "invalid", t |-> 0, s |-> <<>>]
StringDate(s) == [kind |-> "string", t |-> 0, s |-> s]

\* the DD/MM/YYYY conversion shared by save and update
ConvertDMY(str, tz) ==
    LET dateParts == Split(str, "/")
        day == ParseInt(dateParts[1])
        m == ParseInt(dateParts[2])
        month == IF m.nan THEN NaN ELSE [nan |-> FALSE, v |-> m.v - 1]
        year == ParseInt(dateParts[3])
        d == NewDateLocal(year, month, day, tz)
    IN  IF d.valid THEN DateAt(d.t) ELSE InvalidDate

\* savePropertyNotice: noticeDate
SaveNoticeDate(notice_date, tz) ==
    IF Truthy(notice_date) /\ Len(Split(notice_date, "/")) = 3
    THEN ConvertDMY(notice_date, tz)
    ELSE NullDate

\* ------------------------------------------------ extracted_data objects
\* the fields of an extracted_data object the code reads or writes
EmptyED ==
    [village_name |-> Null, village_name_cleaned |-> Null, survey_number |-> "null", notice_date |-> Null,
     buyer_name |-> "null", seller_name |-> "null", advocate_name |-> "null",
     advocate_address |-> "null", advocate_mobile |-> "null",
     district |-> "null", taluka |-> "null",
     latitude |-> NoNum, longitude |-> NoNum, full_address |-> "null",
     geocoding_status |-> "null", geocoding_error |-> "null",
     coordinate_source |-> "null",
     refinement_applied |-> "null", refinement_error |-> "null",
     refinement_confidence |-> NoNum,
     original_village_name |-> Null, original_survey_number |-> "null",
     original_notice_date |-> Null,
     original_latitude |-> NoNum, original_longitude |-> NoNum,
     coordinate_confidence |-> NoNum]

\* ------------------------------------------------------- Firestore store
\* savePropertyNotice: docData
SaveDocData(id, extracted_data, confidence_score, tz) ==
    [id |-> id,
     village_name |-> OrNull(extracted_data.village_name),
     survey_number |-> OrNullAtom(extracted_data.survey_number),
     buyer_name |-> OrNullAtom(extracted_data.buyer_name),
     notice_date |-> SaveNoticeDate(extracted_data.notice_date, tz),
     extracted_data |-> extracted_data,
     confidence_score |-> OrNullNum(confidence_score),
     latitude |-> OrNullNum(extracted_data.latitude),
     longitude |-> OrNullNum(extracted_data.longitude),
     district |-> OrNullAtom(extracted_data.district),
     taluka |-> OrNullAtom(extracted_data.taluka),
     full_address |-> OrNullAtom(extracted_data.full_address),
     geocoding_status |->
         IF TruthyAtom(extracted_data.geocoding_status)
         THEN extracted_data.geocoding_status ELSE "pending"]

\* Firestore refuses a document that holds an invalid Date
Storable(doc) == doc.notice_date.kind # "invalid"

\* a set() that drops every other document
DocSetOverwriting(recs, id, doc) == [x \in {id} |-> doc]

\* docRef.set(doc)
DocSet(recs, id, doc) ==
    [x \in (DOMAIN recs) \cup {id} |-> IF x = id THEN doc ELSE recs[x]]

\* a delete() that removes nothing
DocDeleteKeeping(recs, id) == recs

\* docRef.delete(): deleting a missing document is not an error
DocDelete(recs, id) == [x \in (DOMAIN recs) \ {id} |-> recs[x]]

\* logProcessingStep: logData
LogData(lid, propertyNoticeId, step, status) ==
    [id |-> lid, property_notice_id |-> propertyNoticeId,
     processing_step |-> step, status |-> status]

\* db.collection('processing_logs').where('property_notice_id', '==', id)
LogsOf(lg, id) == {l \in lg : l.property_notice_id = id}

\* data.notice_date ? data.notice_date.toDate().toISOString().split('T')[0] : null
\* (a stored string has no toDate: the read throws)
RenderNoticeDate(nd) ==
    CASE nd.kind = "date" -> [ok |-> TRUE, s |-> ToISODate(nd.t)]
      [] nd.kind = "string" /\ nd.s # <<>> -> [ok |-> FALSE, s |-> Null]
      [] OTHER -> [ok |-> TRUE, s |-> Null]

\* the record a read hands out: the document with notice_date rendered as text
NoticeView(doc) == [doc EXCEPT !.notice_date = RenderNoticeDate(doc.notice_date).s]

NoDoc == SaveDocData(0, EmptyED, NoNum, 0)
NotFound == [kind |-> "null", doc |-> NoticeView(NoDoc)]
ReadError == [kind |-> "error", doc |-> NoticeView(NoDoc)]

\* an update() that creates the document when there is none, as set() with
\* merge would
UpdateTargetCreating(recs, id) ==
    [found |-> TRUE, doc |-> IF id \in DOMAIN recs THEN recs[id] ELSE NoDoc]

\* docRef.update(updates): the document the updates go to.  update() fails
\* when there is no document with that identifier; it never creates one.
UpdateTarget(recs, id) ==
    IF id \in DOMAIN recs THEN [found |-> TRUE, doc |-> recs[id]]
    ELSE [found |-> FALSE, doc |-> NoDoc]

\* getPropertyNoticeById over the store's current contents
GetPropertyNoticeById(recs, id) ==
    IF id \notin DOMAIN recs THEN NotFound
    ELSE IF ~RenderNoticeDate(recs[id].notice_date).ok THEN ReadError
    ELSE [kind |-> "doc", doc |-> NoticeView(recs[id])]

\* the first n elements of a sequence
Take(s, n) == SubSeq(s, 1, IF n < Len(s) THEN n ELSE Len(s))

\* identifiers in the order of orderBy('uploaded_at', 'desc'): identifiers are
\* issued in the order of their upload timestamps
RECURSIVE DescIds(_)
DescIds(S) ==
    IF S = {} THEN <<>>
    ELSE LET top == CHOOSE x \in S : \A y \in S : y <= x
         IN  <<top>> \o DescIds(S \ {top})

ListLimit == 1000

\* getPropertyNotices: the rendered documents, newest first
GetPropertyNotices(recs, limit) ==
    LET ids == Take(DescIds(DOMAIN recs), limit)
    IN  IF \E i \in 1..Len(ids) : ~RenderNoticeDate(recs[ids[i]].notice_date).ok
        THEN [kind |-> "error", list |-> <<>>]
        ELSE [kind |-> "list", list |-> [i \in 1..Len(ids) |-> NoticeView(recs[ids[i]])]]


\* ------------------------------------------------------ village names
\* Gujarati text, one letter per UTF-16 code unit:
\*   r e v n x y u = revenue (7 units), s r x v e = survey (5), n M = number,
\*   n a / n i / n u M = the "of" suffixes, g a m = village, m o j e = mouje
WRevenue == <<"r", "e", "v", "n", "x", "y", "u">>
WSurvey == <<"s", "r", "x", "v", "e">>
WNumber == <<"n", "M">>
WNa == <<"n", "a">>
WNi == <<"n", "i">>
WNu == <<"n", "u", "M">>
WGam == <<"g", "a", "m">>
WMoje == <<"m", "o", "j", "e">>

\* s has w at position i
HasAt(s, i, w) ==
    /\ i >= 1
    /\ i + Len(w) - 1 <= Len(s)
    /\ \A k \in 1..Len(w) : s[i + k - 1] = w[k]

\* the first position at or after i that holds no blank
RECURSIVE SkipSpaces(_, _)
SkipSpaces(s, i) ==
    IF i <= Len(s) /\ IsSpace(s[i]) THEN SkipSpaces(s, i + 1) ELSE i

\* the position after a match of \s*w1\s*w2... begun at i, or 0 when none
RECURSIVE MatchWords(_, _, _)
MatchWords(s, i, ws) ==
    IF ws = <<>> THEN i
    ELSE LET j == SkipSpaces(s, i)
         IN  IF HasAt(s, j, Head(ws))
             THEN MatchWords(s, j + Len(Head(ws)), Tail(ws))
             ELSE 0

\* s.replace(/\s*w1\s*w2...\s*wn.*$/, ''): cut from the leftmost match on
CutFromWords(s, ws) ==
    LET starts == {i \in 1..Len(s) : MatchWords(s, i, ws) # 0}
    IN  IF starts = {} THEN s
        ELSE SubSeq(s, 1, (CHOOSE i \in starts : \A j \in starts : i <= j) - 1)

\* s.replace(/w\s*$/, ''): drop a final w and the blanks after it
CutSuffixWord(s, w) ==
    LET starts == {i \in 1..Len(s) :
                      HasAt(s, i, w) /\ SkipSpaces(s, i + Len(w)) = Len(s) + 1}
    IN  IF starts = {} THEN s
        ELSE SubSeq(s, 1, (CHOOSE i \in starts : \A j \in starts : i <= j) - 1)

\* the position after a match of ^w1\s+w2\s+...wn\s+ , or 0 when none
RECURSIVE MatchPrefixWords(_, _, _)
MatchPrefixWords(s, i, ws) ==
    IF ws = <<>> THEN i
    ELSE IF HasAt(s, i, Head(ws)) /\ SkipSpaces(s, i + Len(Head(ws))) > i + Len(Head(ws))
         THEN MatchPrefixWords(s, SkipSpaces(s, i + Len(Head(ws))), Tail(ws))
         ELSE 0

\* s.replace(/^w1\s+...wn\s+/, '')
CutPrefixWords(s, ws) ==
    LET e == MatchPrefixWords(s, 1, ws)
    IN  IF e = 0 THEN s ELSE SubSeq(s, e, Len(s))

RECURSIVE TrimEnd(_)
TrimEnd(s) ==
    IF s # <<>> /\ IsSpace(s[Len(s)]) THEN TrimEnd(SubSeq(s, 1, Len(s) - 1)) ELSE s

\* String.prototype.trim
Trim(s) == TrimEnd(DropSpaces(s))

\* POST /api/save-notice: the village name handed to the geocoder
AutoGeocodeName(village_name) ==
    LET s1 == CutFromWords(village_name, <<WRevenue, WSurvey, WNumber>>)
        s2 == CutFromWords(s1, <<WSurvey, WNumber>>)
        s3 == CutSuffixWord(s2, WNa)
        s4 == CutSuffixWord(s3, WNi)
        s5 == CutSuffixWord(s4, WNu)
        s6 == CutPrefixWords(s5, <<WGam>>)
        s7 == CutPrefixWords(s6, <<WMoje, WGam>>)
    IN  Trim(s7)


\* ------------------------------------------------- extraction responses
\* A response text is a sequence of pieces: prose (text without braces or
\* backticks), the fences ```json and ```, a JSON value, and broken JSON (text
\* in braces that JSON.parse rejects).  Blank space between pieces is left out.
Prose == [t |-> "prose", v |-> 0]
FenceJson == [t |-> "fence_json", v |-> 0]
Fence == [t |-> "fence", v |-> 0]
Broken == [t |-> "broken", v |-> 0]
JsonText(n) == [t |-> "json", v |-> n]

\* a confidence member: absent, a number in hundredths, or a text
NoConf == [kind |-> "none", v |-> 0]
ConfNum(n) == [kind |-> "num", v |-> n]
ConfText == [kind |-> "text", v |-> 0]
ConfNaN == [kind |-> "nan", v |-> 0]
TruthyConf(c) == c.kind = "text" \/ (c.kind = "num" /\ c.v # 0)

\* the JSON values the responses are built from, by number: 0 is null, the
\* others are objects with or without a data member and a confidence member
ExtractedFields ==
    [EmptyED EXCEPT !.village_name = <<"r", "i", "b", "d", "a">>, !.survey_number = "367",
                    !.notice_date = <<"1", "8", "/", "0", "7", "/", "2", "0", "2", "5">>,
                    !.buyer_name = "buyer", !.district = "Rajkot", !.taluka = "Gondal"]
JsonNull == [isNull |-> TRUE, hasData |-> FALSE, data |-> EmptyED, confidence |-> NoConf]
JsonObject(hasData, confidence) ==
    [isNull |-> FALSE, hasData |-> hasData,
     data |-> IF hasData THEN ExtractedFields ELSE EmptyED, confidence |-> confidence]
JsonValues ==
    <<JsonObject(TRUE, ConfNum(90)), JsonObject(TRUE, NoConf),
      JsonObject(TRUE, ConfNum(9500)), JsonObject(TRUE, ConfNum(0 - 20)),
      JsonObject(TRUE, ConfText), JsonObject(FALSE, ConfNum(90))>>
JsonValue(n) == IF n = 0 THEN JsonNull ELSE JsonValues[n]

\* s.replace(/<piece>\s*/, ''): without the first piece of that kind
RECURSIVE DropFirst(_, _)
DropFirst(text, piece) ==
    IF text = <<>> THEN <<>>
    ELSE IF Head(text) = piece THEN Tail(text)
    ELSE <<Head(text)>> \o DropFirst(Tail(text), piece)

\* s.replace(/```\s*/, ''): the first run of three backticks goes, be it a
\* plain fence or the start of ```json, of which "json" is then left as prose
RECURSIVE DropFirstBackticks(_)
DropFirstBackticks(text) ==
    IF text = <<>> THEN <<>>
    ELSE IF Head(text) = Fence THEN Tail(text)
    ELSE IF Head(text) = FenceJson THEN <<Prose>> \o Tail(text)
    ELSE <<Head(text)>> \o DropFirstBackticks(Tail(text))

\* s.replace(/```\s*$/, '')
DropFinalFence(text) ==
    IF text # <<>> /\ text[Len(text)] = Fence THEN SubSeq(text, 1, Len(text) - 1)
    ELSE text

\* the two lines that remove markdown code blocks
StripFences(text) ==
    DropFinalFence(DropFirstBackticks(DropFinalFence(DropFirst(text, FenceJson))))

\* JSON.parse: the text must be one JSON value and nothing else
NoJson == [ok |-> FALSE, value |-> JsonNull]
JsonParse(text) ==
    IF Len(text) = 1 /\ text[1].t = "json"
    THEN [ok |-> TRUE, value |-> JsonValue(text[1].v)]
    ELSE NoJson

\* text.match(/\{[\s\S]*\}/): from the first brace of the text to its last
HasBraces(piece) == piece.t = "broken" \/ (piece.t = "json" /\ piece.v # 0)
BraceMatch(text) ==
    LET at == {i \in 1..Len(text) : HasBraces(text[i])}
    IN  IF at = {} THEN <<>>
        ELSE SubSeq(text, CHOOSE i \in at : \A j \in at : i <= j,
                          CHOOSE i \in at : \A j \in at : j <= i)

\* s.replace(/[0-9\.\-\/]+/g, '')
NumberChars == {"0", "1", "2", "3", "4", "5", "6", "7", "8", "9", ".", "-", "/"}
RECURSIVE DropNumberChars(_)
DropNumberChars(s) ==
    IF s = <<>> THEN <<>>
    ELSE IF Head(s) \in NumberChars THEN DropNumberChars(Tail(s))
    ELSE <<Head(s)>> \o DropNumberChars(Tail(s))

\* s.replace(/\s+/g, ' ')
RECURSIVE CollapseSpaces(_)
CollapseSpaces(s) ==
    IF s = <<>> THEN <<>>
    ELSE IF IsSpace(Head(s))
    THEN <<" ">> \o CollapseSpaces(SubSeq(s, SkipSpaces(s, 1), Len(s)))
    ELSE <<Head(s)>> \o CollapseSpaces(Tail(s))

\* s.includes(w)
Includes(s, w) == \E i \in 1..Len(s) : HasAt(s, i, w)

\* [^\s,\.]
IsNameChar(c) == ~IsSpace(c) /\ c \notin {",", "."}

\* the position after the run of name characters that holds position i
RECURSIVE RunEnd(_, _)
RunEnd(s, i) == IF i <= Len(s) /\ IsNameChar(s[i]) THEN RunEnd(s, i + 1) ELSE i

\* /gam\s+([^\s,\.]+)na/ tried at position i: the position after the match,
\* which ends with the last "na" of the run of name characters, or 0
VillagePatternAt(s, i) ==
    LET j == SkipSpaces(s, i + Len(WGam))
        k == RunEnd(s, j)
        ends == {m \in (j + 1)..(k - Len(WNa)) : HasAt(s, m, WNa)}
    IN  IF HasAt(s, i, WGam) /\ j > i + Len(WGam) /\ ends # {}
        THEN (CHOOSE m \in ends : \A n \in ends : n <= m) + Len(WNa)
        ELSE 0

\* /([^\s,\.]{2,})/ tried at position i
WordPatternAt(s, i) ==
    IF i <= Len(s) /\ RunEnd(s, i) >= i + 2 THEN RunEnd(s, i) ELSE 0

\* s.match(/.../g)[1] for the two patterns: the second match from the left,
\* matches not overlapping; <<>> when there is none
RECURSIVE NthMatch(_, _, _, _)
NthMatch(s, i, n, word) ==
    LET e == IF word THEN WordPatternAt(s, i) ELSE VillagePatternAt(s, i)
    IN  IF i > Len(s) THEN <<>>
        ELSE IF e = 0 THEN NthMatch(s, i + 1, n, word)
        ELSE IF n = 1 THEN SubSeq(s, i, e - 1)
        ELSE NthMatch(s, e, n - 1, word)

\* the test a candidate of the pattern extraction has to pass
ValidCandidate(candidate) ==
    /\ Len(candidate) >= 2
    /\ Len(candidate) <= 10
    /\ ~Includes(candidate, WSurvey)
    /\ ~Includes(candidate, WRevenue)
    /\ ~Includes(candidate, WNumber)

\* postProcessVillageNames, step 2.  With the g flag match() returns the full
\* matches, so match[1] is the second match of the pattern.  Of the six
\* patterns only "gam X na" and the plain word can give a valid candidate: a
\* match of "moje gam X na" is longer than 10 units, a match of "X na revenue"
\* or "X na survey" holds one of the refused words, and "X na" at the end of
\* the name has no second match.
PatternExtraction(originalName, cleanedVillageName) ==
    LET byVillage == Trim(NthMatch(originalName, 1, 2, FALSE))
        byWord == Trim(NthMatch(originalName, 1, 2, TRUE))
    IN  IF ValidCandidate(byVillage) THEN byVillage
        ELSE IF ValidCandidate(byWord) THEN byWord
        ELSE cleanedVillageName

postProcessVillageNames(extractedData) ==
    LET originalName == extractedData.village_name
        s1 == CutFromWords(originalName, <<WRevenue, WSurvey, WNumber>>)
        s2 == CutFromWords(s1, <<WSurvey, WNumber>>)
        s3 == CutSuffixWord(s2, WNa)
        s4 == CutSuffixWord(s3, WNi)
        s5 == CutSuffixWord(s4, WNu)
        s6 == CutPrefixWords(s5, <<WMoje, WGam>>)
        s7 == CutPrefixWords(s6, <<WGam>>)
        step1 == Trim(CollapseSpaces(DropNumberChars(s7)))
        step2 == IF Len(step1) > 10 \/ Includes(step1, WSurvey) \/ Includes(step1, WRevenue)
                 THEN PatternExtraction(originalName, step1)
                 ELSE step1
        finalVillageName == IF Len(step2) < 2 THEN originalName ELSE step2
    IN  IF ~Truthy(originalName) THEN extractedData
        ELSE [extractedData EXCEPT !.village_name = finalVillageName,
                                   !.village_name_cleaned = finalVillageName]

\* ------------------------------------------------------- the text cleaners
\* s.replace(/w1\s*w2...\s*wn.*$/, ''): as CutFromWords, the match beginning
\* at the first word itself
CutFromFirstWord(s, ws) ==
    LET starts == {i \in 1..Len(s) : HasAt(s, i, Head(ws)) /\ MatchWords(s, i, ws) # 0}
    IN  IF starts = {} THEN s
        ELSE SubSeq(s, 1, (CHOOSE i \in starts : \A j \in starts : i <= j) - 1)

\* s.replace(/^w1\s*w2...\s*wn\s*/, '')
CutLeadingWords(s, ws) ==
    LET e == IF HasAt(s, 1, Head(ws)) THEN MatchWords(s, 1, ws) ELSE 0
    IN  IF e = 0 THEN s ELSE SubSeq(s, SkipSpaces(s, e), Len(s))

\* s.replace(/w$/, '')
CutFinalWord(s, w) ==
    IF HasAt(s, Len(s) - Len(w) + 1, w) THEN SubSeq(s, 1, Len(s) - Len(w)) ELSE s

\* cleanVillageName of the fix-village-names script
cleanVillageName(villageName) ==
    LET s1 == CutFromWords(villageName, <<WRevenue, WSurvey, WNumber>>)
        s2 == CutFromWords(s1, <<WSurvey, WNumber>>)
        s3 == CutLeadingWords(s2, <<WGam>>)
        s4 == CutLeadingWords(s3, <<WMoje, WGam>>)
        s5 == CutFinalWord(s4, WNa)
        s6 == CutFinalWord(s5, WNi)
        s7 == CutFinalWord(s6, WNu)
    IN  IF villageName = <<>> THEN villageName
        ELSE CollapseSpaces(Trim(s7))

\* cleanVillageNameForGeocoding of the geocoding service
cleanVillageNameForGeocoding(villageName) ==
    LET s1 == CutFromFirstWord(villageName, <<WRevenue, WSurvey, WNumber>>)
        s2 == CutFromFirstWord(s1, <<WSurvey, WNumber>>)
        s3 == CutLeadingWords(s2, <<WGam>>)
        cleaned == Trim(CollapseSpaces(DropNumberChars(s3)))
    IN  IF villageName = <<>> THEN <<>>
        ELSE IF Len(cleaned) < 3 THEN villageName
        ELSE cleaned

\* Math.min(Math.max(confidence, 0), 1), in hundredths
ClampConfidence(c) ==
    IF c.kind = "text" THEN ConfNaN
    ELSE ConfNum(IF c.v < 0 THEN 0 ELSE IF c.v > 100 THEN 100 ELSE c.v)

\* the eleven fields of the empty structure
ExtractionFields ==
    {"village_name", "village_name_cleaned", "survey_number", "buyer_name",
     "seller_name", "notice_date", "advocate_name", "advocate_address",
     "advocate_mobile", "district", "taluka"}

NoParse == [data |-> EmptyED, confidence |-> NoConf, notes |-> "null", raised |-> FALSE]

\* a fallback structure that keeps the default confidence of the brace fallback
EmptyStructureAtFallbackConfidence ==
    [data |-> EmptyED, confidence |-> ConfNum(30),
     notes |-> "Failed to parse Gemini response, returned empty structure",
     raised |-> FALSE]

\* parseGeminiResponse: the ultimate fallback
EmptyStructure ==
    [data |-> EmptyED, confidence |-> ConfNum(10),
     notes |-> "Failed to parse Gemini response, returned empty structure",
     raised |-> FALSE]

\* parseGeminiResponse: the try block; ok is FALSE where it throws
ParseDirect(geminiResponse) ==
    LET parsed == JsonParse(StripFences(geminiResponse))
        confidence == IF TruthyConf(parsed.value.confidence)
                      THEN parsed.value.confidence ELSE ConfNum(50)
    IN  IF ~parsed.ok \/ parsed.value.isNull \/ ~parsed.value.hasData
        THEN [ok |-> FALSE, result |-> NoParse]
        ELSE [ok |-> TRUE,
              result |-> [data |-> postProcessVillageNames(parsed.value.data),
                          confidence |-> ClampConfidence(confidence),
                          notes |-> "Processed with Gemini AI",
                          raised |-> FALSE]]

\* parseGeminiResponse: the catch block
ParseFallback(geminiResponse) ==
    LET jsonMatch == BraceMatch(geminiResponse)
        fallbackParsed == JsonParse(jsonMatch)
    IN  IF jsonMatch # <<>> /\ fallbackParsed.ok /\ fallbackParsed.value.hasData
        THEN [data |-> fallbackParsed.value.data,
              confidence |-> IF TruthyConf(fallbackParsed.value.confidence)
                             THEN fallbackParsed.value.confidence ELSE ConfNum(30),
              notes |-> "Parsed with fallback method",
              raised |-> FALSE]
        ELSE EmptyStructure

parseGeminiResponse(geminiResponse) ==
    IF ParseDirect(geminiResponse).ok THEN ParseDirect(geminiResponse).result
    ELSE ParseFallback(geminiResponse)

\* ------------------------------------------------------------ errors
NoErr ==
    [thrown |-> FALSE, statusCode |-> 0, code |-> "null",
     isOperational |-> FALSE, name |-> "Error"]

\* new AppError(message, statusCode, code)
AppError(statusCode, code) ==
    [thrown |-> TRUE, statusCode |-> statusCode, code |-> code,
     isOperational |-> TRUE, name |-> "Error"]

\* new Error(message): no statusCode, no code
PlainError ==
    [thrown |-> TRUE, statusCode |-> 0, code |-> "null",
     isOperational |-> FALSE, name |-> "Error"]

\* the error multer raises for a limit
MulterError(code) ==
    [thrown |-> TRUE, statusCode |-> 0, code |-> code,
     isOperational |-> FALSE, name |-> "MulterError"]

\* ------------------------------------------------------------ responses
\* status 0: nothing sent yet.  keys: the members of the JSON body.
NoResp == [status |-> 0, keys |-> {}, code |-> "null", success |-> "null"]
Json(status, keys, code, success) ==
    [status |-> status, keys |-> keys, code |-> code, success |-> success]

\* app.use(errorHandler)
errorHandler(err) ==
    LET statusCode0 == IF err.statusCode = 0 THEN 500 ELSE err.statusCode
        statusCode1 == IF err.code = "LIMIT_FILE_SIZE" THEN 413 ELSE statusCode0
        code1 == IF err.code = "LIMIT_FILE_SIZE" THEN "FILE_TOO_LARGE" ELSE err.code
        statusCode2 == IF err.code = "LIMIT_UNEXPECTED_FILE" THEN 400 ELSE statusCode1
        code2 == IF err.code = "LIMIT_UNEXPECTED_FILE" THEN "UNEXPECTED_FILE" ELSE code1
        statusCode3 == IF err.name = "ValidationError" THEN 400 ELSE statusCode2
        code3 == IF err.name = "ValidationError" THEN "VALIDATION_ERROR" ELSE code2
        statusCode == IF err.code = "MULTER_ERROR" THEN 400 ELSE statusCode3
        code == IF err.code = "MULTER_ERROR" THEN "FILE_UPLOAD_ERROR" ELSE code3
    IN  IF err.isOperational
        THEN Json(statusCode, {"error", "code"},
                  IF TruthyAtom(code) THEN code ELSE "OPERATIONAL_ERROR", "null")
        ELSE Json(500, {"error", "code"}, "INTERNAL_SERVER_ERROR", "null")

\* ------------------------------------------------------------ requests
EmptyStore == [x \in {} |-> 0]

NoFile == [written |-> FALSE, exists |-> FALSE, unlinked |-> FALSE, pending |-> FALSE]
NoCoords ==
    [latitude |-> NoNum, longitude |-> NoNum, district |-> "null", taluka |-> "null",
     confidence_score |-> NoNum]
NoGeo ==
    [kind |-> "none", latitude |-> NoNum, longitude |-> NoNum, district |-> "null",
     taluka |-> "null", formatted_address |-> "null"]

\* a pair of coordinates kept beside the chosen one
NoPair == [latitude |-> NoNum, longitude |-> NoNum]
\* a pair with its two members exchanged
PairSwapped(x) == [latitude |-> x.longitude, longitude |-> x.latitude]
PairOf(x) == [latitude |-> x.latitude, longitude |-> x.longitude]

\* getPerfectCoordinatesWithGemini: { success: false, error, ... }
PerfectFailure ==
    [success |-> FALSE, latitude |-> NoNum, longitude |-> NoNum, district |-> "null",
     taluka |-> "null", formatted_address |-> "null", coordinate_source |-> "null",
     gemini_coordinates |-> NoPair, alternative_coordinates |-> NoPair,
     coordinate_distance |-> NoNum, confidence_score |-> NoNum]

\* the members of a refinement answer; keys are the members the answer has
RefinementKeys ==
    {"village_name", "survey_number", "notice_date", "latitude", "longitude",
     "confidence_score"}
NoRefinement ==
    [keys |-> {}, village_name |-> Null, survey_number |-> "null", notice_date |-> Null,
     latitude |-> NoNum, longitude |-> NoNum, confidence_score |-> NoNum]

IdleReq ==
    [ep |-> "idle", pc |-> "idle",
     id |-> 0,                          \* req.params.id
     hasBody |-> FALSE, body |-> EmptyED, bodyConf |-> NoNum,   \* req.body
     mime |-> "null", size |-> 0,       \* the uploaded part
     file |-> NoFile,                   \* the temporary file on disk
     calls |-> <<>>,                    \* the external services called, in order
     ocr |-> "null",                    \* what the Vision API did with the image
     extracted |-> EmptyED,             \* geminiResult.extracted_data
     data |-> EmptyED, conf |-> NoNum,  \* extractedData, confidence_score
     refined |-> EmptyED,               \* refinedData
     aic |-> NoCoords,                  \* the AI's coordinate answer
     perfect |-> PerfectFailure,        \* what getPerfectCoordinatesWithGemini returned
     geo |-> NoGeo,                     \* the geocoder's answer
     err |-> NoErr,                     \* the error travelling to the catch block
     snap |-> {},                       \* deletePropertyNotice: logsQuery result
     outcome |-> "null",                \* how the refinement call went
     answer |-> NoRefinement,           \* the JSON object the refinement call gave
     name |-> <<>>,                     \* a village name given to a cleaner
     once |-> <<>>, twice |-> <<>>,     \* the name cleaned once and twice
     text |-> <<>>,                     \* the AI's response text
     parsed |-> NoParse,                \* what parseGeminiResponse made of it
     villages |-> <<>>,                 \* /api/geocode/batch: req.body.villages
     queue |-> <<>>,                    \* /api/geocode/existing: villages still to do
     results |-> <<>>,                  \* /api/geocode/existing: results so far
     saved |-> 0,                       \* savedRecord.id
     lost |-> FALSE,                    \* an update() found its document gone
     uuidTaken |-> FALSE,
     ret |-> "null",                    \* the service's return value
     out |-> NotFound,                  \* getPropertyNoticeById result
     list |-> [kind |-> "list", list |-> <<>>],   \* getPropertyNotices result
     pre |-> [records |-> EmptyStore, logs |-> {}],  \* the store when the request arrived
     post |-> [records |-> EmptyStore, logs |-> {}], \* the store when it was answered
     resp |-> NoResp]

UploadEndpoints == {"process-notice", "extract-raw-text", "process-with-gemini"}
Running(r) == r.pc \notin {"idle", "done"}

\* process.env as the code reads it
TZOffsets == {0 - 480, 0, 330}
GeminiKeys == {"set", "missing", "your-gemini-api-key"}
DefaultMaxMB == 10
DefaultTypes == {"image/jpeg", "image/png", "image/jpg"}
DefaultEnv ==
    [tz |-> 330, geminiKey |-> "set", mapsKey |-> TRUE, maxFileMB |-> DefaultMaxMB,
     allowedTypes |-> DefaultTypes]
\* the default configuration and its one-setting departures
Envs ==
    {DefaultEnv}
    \cup {[DefaultEnv EXCEPT !.geminiKey = k] : k \in GeminiKeys}
    \cup {[DefaultEnv EXCEPT !.mapsKey = FALSE]}
    \cup {[DefaultEnv EXCEPT !.maxFileMB = 20,
                             !.allowedTypes = DefaultTypes \cup {"image/webp"}]}

Set(p, r) == rq' = [rq EXCEPT ![p] = r]
Throw(r, e) == [r EXCEPT !.err = e, !.pc = "respond"]
Arrive(ep) ==
    [IdleReq EXCEPT !.ep = ep, !.pre = [records |-> records, logs |-> logs]]

\* ------------------------------------------------------- upload requests
\* the uploaded part: its declared type and its size in megabytes
NoUpload == [mime |-> "null", size |-> 0]
Uploads ==
    {NoUpload}
    \cup {[mime |-> m, size |-> 1] : m \in {"image/jpeg", "image/webp", "text/plain"}}
    \cup {[mime |-> "image/jpeg", size |-> n] : n \in {11, 21}}
JoiMaxMB == 10

\* a client posts to one of the three upload endpoints
StartUpload(p, ep, upload) ==
    /\ ~Running(rq[p])
    /\ ep \in UploadEndpoints
    /\ Set(p, [Arrive(ep) EXCEPT !.pc = "upload", !.mime = upload.mime,
                                 !.size = upload.size])
    /\ UNCHANGED <<storeVars, env, gone>>

\* upload.single('image'): fileFilter, limits.fileSize, diskStorage.  A rejected
\* upload goes to the error handler; multer removes what it had written.
Multer(p) ==
    LET r == rq[p]
        afterUpload == IF r.ep = "process-with-gemini" THEN "handler" ELSE "validate"
    IN  /\ r.pc = "upload"
        /\ IF r.mime = "null"
           THEN Set(p, [r EXCEPT !.pc = afterUpload])
           ELSE IF r.mime \notin env.allowedTypes
           THEN Set(p, [r EXCEPT !.pc = "done", !.err = PlainError,
                                 !.resp = errorHandler(PlainError)])
           ELSE IF r.size > env.maxFileMB
           THEN Set(p, [r EXCEPT !.pc = "done", !.err = MulterError("LIMIT_FILE_SIZE"),
                                 !.resp = errorHandler(MulterError("LIMIT_FILE_SIZE"))])
           ELSE Set(p, [r EXCEPT !.pc = afterUpload,
                                 !.file = [NoFile EXCEPT !.written = TRUE, !.exists = TRUE]])
        /\ UNCHANGED <<storeVars, env, gone>>

\* a cleanup that leaves the file in place
UnlinkSkipped(f) == f
\* if (fs.existsSync(path)) fs.unlinkSync(path)
UnlinkIfExists(f) ==
    IF f.exists THEN [f EXCEPT !.exists = FALSE, !.unlinked = TRUE] ELSE f

\* something other than the server removes the temporary file
Vanish(p) ==
    /\ Running(rq[p])
    /\ rq[p].file.exists
    /\ Set(p, [rq[p] EXCEPT !.file.exists = FALSE])
    /\ UNCHANGED <<storeVars, env, gone>>

validateImageFile(p) ==
    LET r == rq[p]
        cleaned == UnlinkIfExists(r.file)
        reject(status, keys, code) ==
            [r EXCEPT !.pc = "done", !.file = cleaned,
                      !.resp = Json(status, keys, code, "null")]
    IN  /\ r.pc = "validate"
        /\ IF ~r.file.written
           THEN Set(p, [r EXCEPT !.pc = "done",
                                 !.resp = Json(400, {"error", "code"}, "MISSING_FILE", "null")])
           ELSE IF r.mime \notin DefaultTypes \/ r.size > JoiMaxMB
           THEN Set(p, reject(400, {"error", "details", "code"}, "INVALID_FILE"))
           ELSE IF r.mime \notin DefaultTypes
           THEN Set(p, reject(400, {"error", "code"}, "INVALID_FILE_TYPE"))
           ELSE IF r.size > env.maxFileMB
           THEN Set(p, reject(400, {"error", "code"}, "FILE_TOO_LARGE"))
           ELSE IF ~r.file.exists
           THEN Set(p, [r EXCEPT !.pc = "done",
                                 !.resp = Json(500, {"error", "code"}, "UPLOAD_FAILED", "null")])
           ELSE Set(p, [r EXCEPT !.pc = "handler"])
        /\ UNCHANGED <<storeVars, env, gone>>

\* the route handler up to its first await
UploadHandler(p) ==
    LET r == rq[p]
    IN  /\ r.pc = "handler"
        /\ r.ep \in UploadEndpoints
        /\ IF ~r.file.written
           THEN Set(p, [r EXCEPT !.pc = "done",
                        !.resp = IF r.ep = "process-with-gemini"
                                 THEN Json(400, {"error"}, "null", "null")
                                 ELSE Json(400, {"error", "code"}, "MISSING_FILE", "null")])
           ELSE Set(p, [r EXCEPT !.pc = IF r.ep = "process-notice" THEN "ocr" ELSE "raw_ocr"])
        /\ UNCHANGED <<storeVars, env, gone>>

\* ------------------------------------------------------- OCR and extraction
\* what the Vision API did with the image
OcrOutcomes == {"throws", "api_error", "no_annotations", "blank_text", "text"}

KeyUnusable(key) == key = "missing" \/ key = "your-gemini-api-key"

\* an OCR stage that lets an answer with no annotations through
VisionErrorIgnoringEmpty(o, wrapCode) ==
    CASE o = "throws" -> AppError(500, wrapCode)
      [] o = "api_error" -> AppError(500, "VISION_API_ERROR")
      [] OTHER -> NoErr

\* the AppError the two OCR entry points raise for a Vision outcome, if any;
\* wrapCode is the code under which a foreign exception is wrapped
VisionError(o, wrapCode) ==
    CASE o = "throws" -> AppError(500, wrapCode)
      [] o = "api_error" -> AppError(500, "VISION_API_ERROR")
      [] o = "no_annotations" -> AppError(400, "NO_TEXT_DETECTED")
      [] OTHER -> NoErr

\* processPropertyNotice, from its start to the call of processWithGemini
OcrNotice(p) ==
    LET r == rq[p]
    IN  /\ r.pc = "ocr"
        /\ IF ~r.file.exists
           THEN Set(p, Throw(r, AppError(404, "FILE_NOT_FOUND")))
           ELSE \E o \in OcrOutcomes :
                  LET called == [r EXCEPT !.calls = Append(@, "ocr"), !.ocr = o]
                      e == VisionError(o, "OCR_PROCESSING_ERROR")
                  IN  Set(p, IF e.thrown THEN Throw(called, e)
                             ELSE IF o = "blank_text"
                             THEN Throw(called, AppError(400, "EMPTY_TEXT_DETECTED"))
                             ELSE IF KeyUnusable(env.geminiKey)
                             THEN Throw(called, AppError(500, "GEMINI_API_KEY_REQUIRED"))
                             ELSE [called EXCEPT !.pc = "extract"])
        /\ UNCHANGED <<storeVars, env, gone>>

\* getRawOCRText
getRawOCRText(p) ==
    LET r == rq[p]
    IN  /\ r.pc = "raw_ocr"
        /\ IF ~r.file.exists
           THEN Set(p, Throw(r, AppError(404, "FILE_NOT_FOUND")))
           ELSE \E o \in OcrOutcomes :
                  LET called == [r EXCEPT !.calls = Append(@, "ocr"), !.ocr = o]
                      e == VisionError(o, "RAW_OCR_ERROR")
                  IN  Set(p, IF e.thrown THEN Throw(called, e)
                             ELSE [called EXCEPT !.ret = "true",
                                      !.pc = IF r.ep = "extract-raw-text" THEN "respond"
                                             ELSE "extract"])
        /\ UNCHANGED <<storeVars, env, gone>>

\* hundredths: 90 is a confidence of 0.9
VillageRibda == <<"r", "i", "b", "d", "a">>
DateJuly18 == <<"1", "8", "/", "0", "7", "/", "2", "0", "2", "5">>

\* what parseGeminiResponse makes of the model's answers
Extractions ==
    { [data |-> [EmptyED EXCEPT !.village_name = VillageRibda, !.survey_number = "367",
                                !.notice_date = DateJuly18, !.buyer_name = "buyer",
                                !.district = "Rajkot", !.taluka = "Gondal"],
       confidence |-> Num(90)],
      [data |-> [EmptyED EXCEPT !.survey_number = "12", !.district = "Rajkot"],
       confidence |-> Num(50)],
      [data |-> EmptyED, confidence |-> Num(10)] }

GeminiOutcomes == {"API_KEY_INVALID", "QUOTA_EXCEEDED", "SAFETY", "throws", "response"}

\* after processWithGemini returns: the caller's next step
AfterExtract(r) ==
    IF r.ep = "process-notice" THEN [r EXCEPT !.pc = "refine"]
    ELSE IF Truthy(r.data.village_name_cleaned) \/ Truthy(r.data.village_name)
         THEN [r EXCEPT !.pc = "geocode"]
    ELSE [r EXCEPT !.data.geocoding_status = "no_village_name", !.pc = "save_set"]

processWithGemini(p) ==
    LET r == rq[p]
        called == [r EXCEPT !.calls = Append(@, "extract")]
    IN  /\ r.pc = "extract"
        /\ IF env.geminiKey = "missing"
           THEN Set(p, Throw(r, AppError(500, "GEMINI_API_KEY_MISSING")))
           ELSE \E o \in GeminiOutcomes :
                  /\ o = "response" => env.geminiKey = "set"
                  /\ \E x \in Extractions :
                       Set(p, CASE o = "API_KEY_INVALID" ->
                                     Throw(called, AppError(403, "GEMINI_API_KEY_INVALID"))
                                [] o = "QUOTA_EXCEEDED" ->
                                     Throw(called, AppError(429, "GEMINI_QUOTA_EXCEEDED"))
                                [] o = "SAFETY" ->
                                     Throw(called, AppError(400, "GEMINI_SAFETY_BLOCK"))
                                [] o = "throws" ->
                                     Throw(called, AppError(500, "GEMINI_PROCESSING_ERROR"))
                                [] OTHER ->
                                     AfterExtract([called EXCEPT !.extracted = x.data,
                                                                 !.data = x.data,
                                                                 !.conf = x.confidence]))
        /\ UNCHANGED <<storeVars, env, gone>>

\* ------------------------------------------------------------ geocoding
\* coordinates are hundredths of a degree: 2230 is 22.30
GeoAnswers ==
    { [latitude |-> Num(2232), longitude |-> Num(7080), district |-> "Rajkot",
       taluka |-> "Gondal", formatted_address |-> "Ribda, Gujarat"],
      [latitude |-> Num(2300), longitude |-> Num(7080), district |-> "Jamnagar",
       taluka |-> "Jodiya", formatted_address |-> "Ribda, Jamnagar"] }

GeoThrown == [NoGeo EXCEPT !.kind = "thrown"]
GeoNotFound == [NoGeo EXCEPT !.kind = "not_found"]
GeoSuccess(g) ==
    [kind |-> "success", latitude |-> g.latitude, longitude |-> g.longitude,
     district |-> g.district, taluka |-> g.taluka,
     formatted_address |-> g.formatted_address]

\* geocodeVillage: the results it can give under configuration e
geocodeVillage(e) ==
    IF ~e.mapsKey THEN {GeoThrown}
    ELSE {GeoThrown, GeoNotFound} \cup {GeoSuccess(g) : g \in GeoAnswers}

\* a record of calls that puts the geocoder's fetch before all others
GeocodeCalledFirst(r) ==
    IF env.mapsKey THEN [r EXCEPT !.calls = <<"geocode">> \o @] ELSE r

\* the fetch is made only when the key is configured
GeocodeCalled(r) ==
    IF env.mapsKey THEN [r EXCEPT !.calls = Append(@, "geocode")] ELSE r

EarthRadiusKm == 6371
\* calculateDistance in metres, for two points on one meridian (lon1 = lon2),
\* where the haversine reduces to R * |dLat|; pi taken as 355/113
calculateDistance(lat1, lon1, lat2, lon2) ==
    LET dLat == IF lat2 >= lat1 THEN lat2 - lat1 ELSE lat1 - lat2
    IN  (dLat * EarthRadiusKm * 355) \div (113 * 18)
CloseKm == 10

\* ------------------------------------------------------------ refinement
\* the JSON objects the model answers a refinement prompt with
Refinements ==
    { [NoRefinement EXCEPT !.keys = RefinementKeys, !.village_name = VillageRibda,
                           !.survey_number = "367/1", !.notice_date = DateJuly18,
                           !.confidence_score = Num(95)],
      [NoRefinement EXCEPT !.keys = {"village_name", "survey_number"},
                           !.survey_number = "367"],
      [NoRefinement EXCEPT !.keys = {"survey_number", "latitude", "longitude",
                                      "confidence_score"},
                           !.survey_number = "367",
                           !.latitude = Num(2230), !.longitude = Num(7080),
                           !.confidence_score = Num(9500)] }

\* a merge in which the answer's members also overwrite the backups
MergeRefinementOverBackups(extractedData, refinedData) ==
    LET pick(k, mine, theirs) == IF k \in refinedData.keys THEN theirs ELSE mine
    IN  [extractedData EXCEPT
            !.village_name = pick("village_name", @, refinedData.village_name),
            !.survey_number = pick("survey_number", @, refinedData.survey_number),
            !.notice_date = pick("notice_date", @, refinedData.notice_date),
            !.latitude = pick("latitude", @, refinedData.latitude),
            !.longitude = pick("longitude", @, refinedData.longitude),
            !.original_village_name =
                pick("village_name", extractedData.village_name, refinedData.village_name),
            !.original_survey_number =
                pick("survey_number", extractedData.survey_number, refinedData.survey_number),
            !.original_notice_date =
                pick("notice_date", extractedData.notice_date, refinedData.notice_date),
            !.original_latitude = extractedData.latitude,
            !.original_longitude = extractedData.longitude,
            !.refinement_applied = "true",
            !.refinement_confidence =
                pick("confidence_score", NoNum, refinedData.confidence_score)]

\* { ...extractedData, ...refinedData, original_*: ..., refinement_applied: true, ... }
MergeRefinement(extractedData, refinedData) ==
    LET pick(k, mine, theirs) == IF k \in refinedData.keys THEN theirs ELSE mine
    IN  [extractedData EXCEPT
            !.village_name = pick("village_name", @, refinedData.village_name),
            !.survey_number = pick("survey_number", @, refinedData.survey_number),
            !.notice_date = pick("notice_date", @, refinedData.notice_date),
            !.latitude = pick("latitude", @, refinedData.latitude),
            !.longitude = pick("longitude", @, refinedData.longitude),
            !.original_village_name = extractedData.village_name,
            !.original_survey_number = extractedData.survey_number,
            !.original_notice_date = extractedData.notice_date,
            !.original_latitude = extractedData.latitude,
            !.original_longitude = extractedData.longitude,
            !.refinement_applied = "true",
            !.refinement_confidence =
                pick("confidence_score", NoNum, refinedData.confidence_score)]

\* a catch block that returns the extracted fields without the error message
RefinementFailedSilently(extractedData) ==
    [extractedData EXCEPT !.refinement_applied = "false"]

\* a catch block that returns the error marks without the extracted fields
RefinementFailedDroppingFields(extractedData) ==
    [EmptyED EXCEPT !.refinement_applied = "false", !.refinement_error = "message"]

\* the catch block of refineExtractedDataWithGemini
RefinementFailed(extractedData) ==
    [extractedData EXCEPT !.refinement_applied = "false",
                          !.refinement_error = "message"]

Max(a, b) == IF a >= b THEN a ELSE b

\* after the coordinate step: processPropertyNotice uses the refined data and
\* returns; POST /api/refine-notice/:id goes on to updatePropertyNotice;
\* getPerfectCoordinatesWithGemini taken on its own has returned
FinishNotice(r) ==
    IF r.ep = "refine-notice" THEN [r EXCEPT !.pc = "ref_update"]
    ELSE IF r.ep = "coordinates" THEN [r EXCEPT !.pc = "located"]
    ELSE
    [r EXCEPT !.data = r.refined,
              !.conf = IF TruthyNum(r.refined.refinement_confidence)
                       THEN Num(Max(r.conf.v, r.refined.refinement_confidence.v))
                       ELSE r.conf,
              !.ret = "true",
              !.pc = "respond"]

\* processPropertyNotice after refineExtractedDataWithGemini returns
AfterRefine(r) ==
    IF Truthy(r.refined.village_name) /\ Len(r.refined.village_name) >= 2
    THEN [r EXCEPT !.pc = "coord_ai"]
    ELSE FinishNotice(r)

\* the call throws, or its response is no JSON, or the JSON value null, or a
\* JSON object
RefineOutcomes == {"throws", "unparseable", "null", "parsed"}

\* refineExtractedDataWithGemini once the key is there: the merge when the
\* response is an object, the catch block otherwise (for null the merge
\* throws a TypeError at refinedData.confidence_score)
RefineResult(extractedData, o, refinedData) ==
    IF o = "parsed" THEN MergeRefinement(extractedData, refinedData)
    ELSE RefinementFailed(extractedData)

refineExtractedDataWithGemini(p) ==
    LET r == rq[p]
        called == [r EXCEPT !.calls = Append(@, "refine")]
    IN  /\ r.pc = "refine"
        /\ IF env.geminiKey = "missing"
           THEN Set(p, AfterRefine([r EXCEPT !.refined = r.data]))
           ELSE \E o \in RefineOutcomes, refinedData \in Refinements :
                  Set(p, AfterRefine([called EXCEPT !.refined =
                        RefineResult(r.data, o, refinedData)]))
        /\ UNCHANGED <<storeVars, env, gone>>

\* ------------------------------------------------------ perfect coordinates
OrElseAtom(a, b) == IF TruthyAtom(a) THEN a ELSE b
OrElseNum(x, n) == IF TruthyNum(x) THEN x.v ELSE n

\* the JSON objects the model answers a coordinate prompt with
CoordAnswers ==
    { [NoCoords EXCEPT !.latitude = Num(2230), !.longitude = Num(7080),
                       !.district = "Rajkot", !.taluka = "Gondal",
                       !.confidence_score = Num(90)],
      [NoCoords EXCEPT !.latitude = Num(2230), !.longitude = Num(7080)],
      [NoCoords EXCEPT !.latitude = Num(2230), !.longitude = Num(7080),
                       !.confidence_score = Num(80)],
      NoCoords }

\* getPerfectCoordinatesWithGemini once the model's coordinates are in hand:
\* googleMapsResult is what geocodeVillage gave (thrown, not found or a place)
ReconcileCoordinates(coordinateData, googleMapsResult, district) ==
    LET geminiConf == OrElseNum(coordinateData.confidence_score, 70)
        distance == calculateDistance(coordinateData.latitude.v, coordinateData.longitude.v,
                                      googleMapsResult.latitude.v, googleMapsResult.longitude.v)
        useGoogleMaps == 80 > geminiConf
    IN  IF googleMapsResult.kind = "success" /\ distance <= CloseKm * 1000
        THEN [success |-> TRUE,
              latitude |-> googleMapsResult.latitude,
              longitude |-> googleMapsResult.longitude,
              district |-> OrElseAtom(googleMapsResult.district, district),
              taluka |-> googleMapsResult.taluka,
              formatted_address |-> googleMapsResult.formatted_address,
              coordinate_source |-> "google_maps_verified",
              gemini_coordinates |-> PairOf(coordinateData),
              alternative_coordinates |-> NoPair,
              coordinate_distance |-> Num(distance),
              confidence_score |-> Num(Max(80, geminiConf))]
        ELSE IF googleMapsResult.kind = "success" /\ useGoogleMaps
        THEN [success |-> TRUE,
              latitude |-> googleMapsResult.latitude,
              longitude |-> googleMapsResult.longitude,
              district |-> OrElseAtom(googleMapsResult.district, district),
              taluka |-> googleMapsResult.taluka,
              formatted_address |-> OrElseAtom(googleMapsResult.formatted_address, "village, district, Gujarat"),
              coordinate_source |-> "google_maps_high_confidence",
              gemini_coordinates |-> NoPair,
              alternative_coordinates |-> PairOf(coordinateData),
              coordinate_distance |-> Num(distance),
              confidence_score |-> Num(70)]
        ELSE IF googleMapsResult.kind = "success"
        THEN [success |-> TRUE,
              latitude |-> coordinateData.latitude,
              longitude |-> coordinateData.longitude,
              district |-> OrElseAtom(coordinateData.district, district),
              taluka |-> coordinateData.taluka,
              formatted_address |-> "village, district, Gujarat",
              coordinate_source |-> "gemini_high_confidence",
              gemini_coordinates |-> NoPair,
              alternative_coordinates |-> PairOf(googleMapsResult),
              coordinate_distance |-> Num(distance),
              confidence_score |-> Num(geminiConf)]
        ELSE [success |-> TRUE,
              latitude |-> coordinateData.latitude,
              longitude |-> coordinateData.longitude,
              district |-> OrElseAtom(coordinateData.district, district),
              taluka |-> coordinateData.taluka,
              formatted_address |-> "village, district, Gujarat",
              coordinate_source |-> "gemini_only",
              gemini_coordinates |-> NoPair,
              alternative_coordinates |-> NoPair,
              coordinate_distance |-> NoNum,
              confidence_score |-> Num(OrElseNum(coordinateData.confidence_score, 60))]

\* processPropertyNotice: what it does to refinedData with the coordinate result
ApplyPerfectCoordinates(refinedData, perfectCoordinates) ==
    IF perfectCoordinates.success
    THEN [refinedData EXCEPT
             !.latitude = perfectCoordinates.latitude,
             !.longitude = perfectCoordinates.longitude,
             !.district = OrElseAtom(perfectCoordinates.district, @),
             !.taluka = OrElseAtom(perfectCoordinates.taluka, @),
             !.full_address = perfectCoordinates.formatted_address,
             !.coordinate_source = perfectCoordinates.coordinate_source,
             !.coordinate_confidence = perfectCoordinates.confidence_score,
             !.geocoding_status = "success_perfect"]
    ELSE [refinedData EXCEPT !.geocoding_status = "failed_perfect_attempt",
                             !.geocoding_error = "message"]

\* POST /api/refine-notice/:id: what it does to refinedData with the result
ApplyRefinedCoordinates(refinedData, perfectCoordinates) ==
    IF perfectCoordinates.success
    THEN [refinedData EXCEPT
             !.latitude = perfectCoordinates.latitude,
             !.longitude = perfectCoordinates.longitude,
             !.district = OrElseAtom(perfectCoordinates.district, @),
             !.taluka = OrElseAtom(perfectCoordinates.taluka, @),
             !.full_address = perfectCoordinates.formatted_address,
             !.coordinate_source = perfectCoordinates.coordinate_source,
             !.coordinate_confidence = perfectCoordinates.confidence_score,
             !.geocoding_status = "success_refined"]
    ELSE refinedData

\* the caller's use of the coordinate result
ApplyCoordinates(ep, refinedData, perfectCoordinates) ==
    IF ep = "refine-notice"
    THEN ApplyRefinedCoordinates(refinedData, perfectCoordinates)
    ELSE ApplyPerfectCoordinates(refinedData, perfectCoordinates)

CoordOutcomes == {"throws", "unparseable", "parsed"}

\* getPerfectCoordinatesWithGemini up to its call of geocodeVillage
PerfectCoordinatesAI(p) ==
    LET r == rq[p]
        called == [r EXCEPT !.calls = Append(@, "coordinates")]
        failed(x) == FinishNotice([x EXCEPT !.perfect = PerfectFailure,
                                            !.refined =
                                      ApplyCoordinates(r.ep, @, PerfectFailure)])
    IN  /\ r.pc = "coord_ai"
        /\ IF env.geminiKey = "missing"
           THEN Set(p, failed(r))
           ELSE \E o \in CoordOutcomes, coordinateData \in CoordAnswers :
                  Set(p, IF o = "parsed" /\ TruthyNum(coordinateData.latitude)
                                         /\ TruthyNum(coordinateData.longitude)
                         THEN [called EXCEPT !.aic = coordinateData, !.pc = "coord_geo"]
                         ELSE failed(called))
        /\ UNCHANGED <<storeVars, env, gone>>

\* getPerfectCoordinatesWithGemini from its call of geocodeVillage on
PerfectCoordinatesGeo(p) ==
    LET r == rq[p]
        district == OrElseAtom(r.refined.district, r.data.district)
    IN  /\ r.pc = "coord_geo"
        /\ \E googleMapsResult \in geocodeVillage(env) :
             Set(p, FinishNotice([GeocodeCalled(r) EXCEPT
                        !.geo = googleMapsResult,
                        !.perfect = ReconcileCoordinates(r.aic, googleMapsResult, district),
                        !.refined = ApplyCoordinates(r.ep, @,
                            ReconcileCoordinates(r.aic, googleMapsResult, district))]))
        /\ UNCHANGED <<storeVars, env, gone>>

\* ------------------------------------------------------------ saving
\* the extractedData objects clients post to /api/save-notice
VillageWithBoilerplate ==
    <<"g", "a", "m", " ">> \o VillageRibda \o <<"n", "a", " ">> \o WSurvey \o <<" ">> \o WNumber
SaveBodies ==
    { [EmptyED EXCEPT !.village_name = VillageRibda, !.survey_number = "367",
                      !.notice_date = DateJuly18, !.district = "Rajkot"],
      [EmptyED EXCEPT !.village_name = VillageWithBoilerplate],
      [EmptyED EXCEPT !.village_name = WNa, !.geocoding_status = "success"],
      [EmptyED EXCEPT !.survey_number = "12"] }

\* a client posts to /api/save-notice
StartSave(p, hasBody, extractedData, confidenceScore) ==
    /\ ~Running(rq[p])
    /\ Set(p, [Arrive("save-notice") EXCEPT
                  !.pc = "handler", !.hasBody = hasBody,
                  !.body = IF hasBody THEN extractedData ELSE EmptyED,
                  !.bodyConf = IF hasBody THEN confidenceScore ELSE NoNum])
    /\ UNCHANGED <<storeVars, env, gone>>

\* POST /api/save-notice up to its call of savePropertyNotice
SaveHandler(p) ==
    LET r == rq[p]
    IN  /\ r.pc = "handler"
        /\ r.ep = "save-notice"
        /\ IF ~r.hasBody
           THEN Set(p, [r EXCEPT !.pc = "done",
                        !.resp = Json(400, {"error", "code"}, "MISSING_EXTRACTED_DATA", "null")])
           ELSE Set(p, [r EXCEPT !.data = r.body, !.conf = r.bodyConf, !.pc = "save_set"])
        /\ UNCHANGED <<storeVars, env, gone>>

\* savePropertyNotice up to and including docRef.set(docData)
SaveSet(p) ==
    LET r == rq[p]
        id == issued + 1
        docData == SaveDocData(id, r.data, r.conf, env.tz)
    IN  /\ r.pc = "save_set"
        /\ issued < MaxIds
        /\ issued' = id
        /\ \E ok \in BOOLEAN :
             IF ok /\ Storable(docData)
             THEN /\ records' = DocSet(records, id, docData)
                  /\ Set(p, [r EXCEPT !.uuidTaken = TRUE, !.saved = id, !.pc = "save_log"])
             ELSE /\ records' = records
                  /\ Set(p, IF r.ep = "process-with-gemini"
                            THEN [r EXCEPT !.uuidTaken = TRUE, !.ret = "save_failed",
                                           !.pc = "respond"]
                            ELSE Throw([r EXCEPT !.uuidTaken = TRUE], PlainError))
        /\ UNCHANGED <<logs, lissued, env, gone>>

\* POST /api/save-notice after savePropertyNotice returns
AfterSave(r) ==
    IF r.ep = "save-notice" /\ Truthy(r.body.village_name)
                            /\ Len(AutoGeocodeName(r.body.village_name)) >= 2
    THEN [r EXCEPT !.ret = "true", !.pc = "geocode"]
    ELSE [r EXCEPT !.ret = "true", !.pc = "respond"]

\* savePropertyNotice: logProcessingStep(id, 'EXTRACTION_COMPLETED', 'success'),
\* whose own failure is caught and dropped
SaveLog(p) ==
    LET r == rq[p]
        lid == lissued + 1
    IN  /\ r.pc = "save_log"
        /\ lissued' = lid
        /\ \E ok \in BOOLEAN :
             logs' = IF ok
                     THEN logs \cup {LogData(lid, r.saved, "EXTRACTION_COMPLETED", "success")}
                     ELSE logs
        /\ Set(p, AfterSave(r))
        /\ UNCHANGED <<records, issued, env, gone>>

\* the updates object of updatePropertyNoticeLocation applied to a document
updatePropertyNoticeLocation(doc, locationData, status) ==
    [doc EXCEPT !.latitude = OrNullNum(locationData.latitude),
                !.longitude = OrNullNum(locationData.longitude),
                !.district = OrNullAtom(locationData.district),
                !.taluka = OrNullAtom(locationData.taluka),
                !.full_address = OrNullAtom(locationData.formatted_address),
                !.geocoding_status = OrElseAtom(status, "completed")]

\* geocodeVillage as called by processImageWithGemini and by /api/save-notice
Geocode(p) ==
    LET r == rq[p]
        called == GeocodeCalled(r)
    IN  /\ r.pc = "geocode"
        /\ \E locationData \in geocodeVillage(env) :
             Set(p, IF r.ep = "save-notice"
                    THEN [called EXCEPT !.geo = locationData,
                             !.pc = IF locationData.kind = "success" THEN "upd_loc"
                                    ELSE "respond"]
                    ELSE [called EXCEPT !.geo = locationData, !.pc = "save_set",
                             !.data =
                                 IF locationData.kind = "success"
                                 THEN [r.data EXCEPT
                                          !.latitude = locationData.latitude,
                                          !.longitude = locationData.longitude,
                                          !.district = OrElseAtom(locationData.district, @),
                                          !.taluka = OrElseAtom(locationData.taluka, @),
                                          !.full_address = locationData.formatted_address,
                                          !.geocoding_status = "success"]
                                 ELSE IF locationData.kind = "not_found"
                                 THEN [r.data EXCEPT !.geocoding_status = "failed",
                                                     !.geocoding_error = "message"]
                                 ELSE [r.data EXCEPT !.geocoding_status = "error",
                                                     !.geocoding_error = "message"]])
        /\ UNCHANGED <<storeVars, env, gone>>

\* /api/save-notice: updatePropertyNoticeLocation(savedRecord.id, {...});
\* docRef.update fails when the document is gone; the failure is only logged
UpdateLocation(p) ==
    LET r == rq[p]
        locationData ==
            [r.geo EXCEPT !.district = OrElseAtom(r.geo.district, r.body.district),
                          !.taluka = OrElseAtom(r.geo.taluka, r.body.taluka)]
        target == UpdateTarget(records, r.saved)
    IN  /\ r.pc = "upd_loc"
        /\ \E ok \in BOOLEAN :
             records' = IF ok /\ target.found
                        THEN DocSet(records, r.saved,
                                 updatePropertyNoticeLocation(target.doc, locationData, "success"))
                        ELSE records
        /\ Set(p, [r EXCEPT !.lost = ~target.found, !.pc = "respond"])
        /\ UNCHANGED <<logs, issued, lissued, env, gone>>

\* ------------------------------------------------------------ reading
\* a client asks for GET /api/notices/:id
StartGet(p, id) ==
    /\ ~Running(rq[p])
    /\ Set(p, [Arrive("get-notice") EXCEPT !.pc = "read_one", !.id = id])
    /\ UNCHANGED <<storeVars, env, gone>>

\* getPropertyNoticeById(req.params.id); the store may fail the read
ReadOne(p) ==
    LET r == rq[p]
    IN  /\ r.pc = "read_one"
        /\ \E ok \in BOOLEAN :
             Set(p, [r EXCEPT !.pc = "respond",
                        !.out = IF ok THEN GetPropertyNoticeById(records, r.id)
                                ELSE ReadError])
        /\ UNCHANGED <<storeVars, env, gone>>

\* a client asks for GET /api/notices
StartList(p) ==
    /\ ~Running(rq[p])
    /\ Set(p, [Arrive("get-notices") EXCEPT !.pc = "read_list"])
    /\ UNCHANGED <<storeVars, env, gone>>

\* getPropertyNotices({ limit, offset })
ReadList(p) ==
    LET r == rq[p]
    IN  /\ r.pc = "read_list"
        /\ \E ok \in BOOLEAN :
             Set(p, [r EXCEPT !.pc = "respond",
                        !.list = IF ok THEN GetPropertyNotices(records, ListLimit)
                                 ELSE [kind |-> "error", list |-> <<>>]])
        /\ UNCHANGED <<storeVars, env, gone>>

\* ------------------------------------------------------------ deleting
\* a client asks for DELETE /api/notices/:id
StartDelete(p, id) ==
    /\ ~Running(rq[p])
    /\ Set(p, [Arrive("delete-notice") EXCEPT !.pc = "del_get", !.id = id])
    /\ UNCHANGED <<storeVars, env, gone>>

\* deletePropertyNotice: docRef.get() and the exists test
DeleteGet(p) ==
    LET r == rq[p]
    IN  /\ r.pc = "del_get"
        /\ \E ok \in BOOLEAN :
             Set(p, IF ~ok THEN Throw(r, PlainError)
                    ELSE IF r.id \notin DOMAIN records
                    THEN [r EXCEPT !.ret = "false", !.pc = "respond"]
                    ELSE [r EXCEPT !.pc = "del_doc"])
        /\ UNCHANGED <<storeVars, env, gone>>

\* deletePropertyNotice: docRef.delete()
DeleteDoc(p) ==
    LET r == rq[p]
    IN  /\ r.pc = "del_doc"
        /\ \E ok \in BOOLEAN :
             IF ok
             THEN /\ records' = DocDelete(records, r.id)
                  /\ Set(p, [r EXCEPT !.pc = "del_query"])
             ELSE /\ records' = records
                  /\ Set(p, Throw(r, PlainError))
        /\ UNCHANGED <<logs, issued, lissued, env, gone>>

\* deletePropertyNotice: logsQuery.get()
DeleteQuery(p) ==
    LET r == rq[p]
    IN  /\ r.pc = "del_query"
        /\ \E ok \in BOOLEAN :
             Set(p, IF ok THEN [r EXCEPT !.snap = LogsOf(logs, r.id), !.pc = "del_commit"]
                    ELSE Throw(r, PlainError))
        /\ UNCHANGED <<storeVars, env, gone>>

\* deletePropertyNotice: batch.commit() of the log deletions, then return true
DeleteCommit(p) ==
    LET r == rq[p]
    IN  /\ r.pc = "del_commit"
        /\ \E ok \in BOOLEAN :
             IF ok
             THEN /\ logs' = logs \ r.snap
                  /\ gone' = gone \cup {r.id}
                  /\ Set(p, [r EXCEPT !.ret = "true", !.pc = "respond"])
             ELSE /\ logs' = logs
                  /\ gone' = gone
                  /\ Set(p, Throw(r, PlainError))
        /\ UNCHANGED <<records, issued, lissued, env>>

\* ------------------------------------------------------------ refining
\* updatePropertyNotice: updates.notice_date.  A string of three '/'-separated
\* parts becomes a Date; any other value is written as it was given
UpdateNoticeDate(notice_date, tz) ==
    IF Truthy(notice_date) /\ Len(Split(notice_date, "/")) = 3
    THEN ConvertDMY(notice_date, tz)
    ELSE IF notice_date = Null THEN NullDate
    ELSE StringDate(notice_date)

\* POST /api/refine-notice/:id: originalData, from the record as it is read
OriginalData(existingNotice) ==
    [EmptyED EXCEPT !.village_name = existingNotice.village_name,
                    !.survey_number = existingNotice.survey_number,
                    !.notice_date = existingNotice.notice_date,
                    !.buyer_name = existingNotice.buyer_name,
                    !.district = existingNotice.district,
                    !.taluka = existingNotice.taluka,
                    !.latitude = existingNotice.latitude,
                    !.longitude = existingNotice.longitude]

\* a client posts to /api/refine-notice/:id
StartRefine(p, id) ==
    /\ ~Running(rq[p])
    /\ Set(p, [Arrive("refine-notice") EXCEPT !.pc = "ref_get", !.id = id])
    /\ UNCHANGED <<storeVars, env, gone>>

\* POST /api/refine-notice/:id: getPropertyNoticeById(id) and originalData
RefineGet(p) ==
    LET r == rq[p]
        existingNotice == GetPropertyNoticeById(records, r.id)
    IN  /\ r.pc = "ref_get"
        /\ \E ok \in BOOLEAN :
             Set(p, IF ~ok \/ existingNotice.kind = "error" THEN Throw(r, PlainError)
                    ELSE IF existingNotice.kind = "null"
                    THEN [r EXCEPT !.out = existingNotice, !.pc = "respond"]
                    ELSE [r EXCEPT !.out = existingNotice,
                                   !.data = OriginalData(existingNotice.doc),
                                   !.conf = existingNotice.doc.confidence_score,
                                   !.pc = "refine"])
        /\ UNCHANGED <<storeVars, env, gone>>

\* the updates object of updatePropertyNotice applied to a document
updatePropertyNotice(doc, refinedData, confidence_score, tz) ==
    [doc EXCEPT !.village_name = refinedData.village_name,
                !.survey_number = refinedData.survey_number,
                !.notice_date = UpdateNoticeDate(refinedData.notice_date, tz),
                !.extracted_data = refinedData,
                !.confidence_score = confidence_score]

\* POST /api/refine-notice/:id: updatePropertyNotice(id, {...}), which writes
\* the updates and then reads the record back with getPropertyNoticeById
RefineUpdate(p) ==
    LET r == rq[p]
        confidence_score ==
            Num(Max(OrElseNum(r.conf, 0), OrElseNum(r.refined.refinement_confidence, 0)))
        target == UpdateTarget(records, r.id)
        written == updatePropertyNotice(target.doc, r.refined, confidence_score, env.tz)
        after == DocSet(records, r.id, written)
        next == IF TruthyNum(r.refined.latitude) /\ TruthyNum(r.refined.longitude)
                THEN "ref_loc" ELSE "respond"
    IN  /\ r.pc = "ref_update"
        /\ \E ok \in BOOLEAN :
             IF ok /\ target.found /\ Storable(written)
             THEN /\ records' = after
                  /\ Set(p, IF GetPropertyNoticeById(after, r.id).kind = "error"
                            THEN Throw([r EXCEPT !.ret = "updated"], PlainError)
                            ELSE [r EXCEPT !.ret = "updated", !.pc = next])
             ELSE /\ records' = records
                  /\ Set(p, Throw([r EXCEPT !.lost = ~target.found], PlainError))
        /\ UNCHANGED <<logs, issued, lissued, env, gone>>

\* POST /api/refine-notice/:id: updatePropertyNoticeLocation(id, {...})
RefineLocation(p) ==
    LET r == rq[p]
        locationData ==
            [NoGeo EXCEPT !.latitude = r.refined.latitude,
                          !.longitude = r.refined.longitude,
                          !.district = r.refined.district,
                          !.taluka = r.refined.taluka,
                          !.formatted_address = r.refined.full_address]
        target == UpdateTarget(records, r.id)
    IN  /\ r.pc = "ref_loc"
        /\ \E ok \in BOOLEAN :
             IF ok /\ target.found
             THEN /\ records' = DocSet(records, r.id,
                          updatePropertyNoticeLocation(target.doc, locationData, "success"))
                  /\ Set(p, [r EXCEPT !.pc = "respond"])
             ELSE /\ records' = records
                  /\ Set(p, Throw([r EXCEPT !.lost = ~target.found], PlainError))
        /\ UNCHANGED <<logs, issued, lissued, env, gone>>

\* ------------------------------------------------------ geocoding sweep
\* getVillagesNeedingGeocoding: the documents the query and its filter keep
NeedsGeocoding(doc) ==
    /\ Truthy(doc.village_name)
    /\ doc.geocoding_status \in {"pending", "failed"}
    /\ ~TruthyNum(doc.latitude) \/ ~TruthyNum(doc.longitude)

\* identifiers in ascending order
RECURSIVE AscIds(_)
AscIds(S) ==
    IF S = {} THEN <<>>
    ELSE LET low == CHOOSE x \in S : \A y \in S : x <= y
         IN  <<low>> \o AscIds(S \ {low})

getVillagesNeedingGeocoding(recs) ==
    AscIds({id \in DOMAIN recs : NeedsGeocoding(recs[id])})

\* a client posts to /api/geocode/existing
StartSweep(p) ==
    /\ ~Running(rq[p])
    /\ Set(p, [Arrive("geocode-existing") EXCEPT !.pc = "sweep_query"])
    /\ UNCHANGED <<storeVars, env, gone>>

\* POST /api/geocode/existing: getVillagesNeedingGeocoding()
SweepQuery(p) ==
    LET r == rq[p]
        villages == getVillagesNeedingGeocoding(records)
    IN  /\ r.pc = "sweep_query"
        /\ \E ok \in BOOLEAN :
             Set(p, IF ~ok THEN Throw(r, PlainError)
                    ELSE [r EXCEPT !.queue = villages,
                                   !.pc = IF villages = <<>> THEN "respond"
                                          ELSE "sweep_geo"])
        /\ UNCHANGED <<storeVars, env, gone>>

\* POST /api/geocode/existing, one turn of the loop: geocodeVillage, then
\* updatePropertyNoticeLocation(village.id, geocodingResult); whatever either
\* throws is recorded for that village and the loop goes on
SweepGeocode(p) ==
    LET r == rq[p]
        id == Head(r.queue)
        rest == Tail(r.queue)
        turn(x, success) ==
            [x EXCEPT !.queue = rest,
                      !.results = Append(@, [id |-> id, success |-> success]),
                      !.pc = IF rest = <<>> THEN "respond" ELSE "sweep_geo"]
    IN  /\ r.pc = "sweep_geo"
        /\ \E geocodingResult \in geocodeVillage(env), ok \in BOOLEAN :
             IF geocodingResult.kind # "thrown" /\ ok /\ UpdateTarget(records, id).found
             THEN /\ records' = DocSet(records, id,
                          updatePropertyNoticeLocation(UpdateTarget(records, id).doc,
                              geocodingResult,
                              IF geocodingResult.kind = "success" THEN "success"
                              ELSE "not_found"))
                  /\ Set(p, turn([GeocodeCalled(r) EXCEPT !.geo = geocodingResult],
                                 geocodingResult.kind = "success"))
             ELSE /\ records' = records
                  /\ Set(p, turn([GeocodeCalled(r) EXCEPT
                                     !.geo = geocodingResult,
                                     !.lost = @ \/ (geocodingResult.kind # "thrown"
                                                     /\ ~UpdateTarget(records, id).found)],
                                 FALSE))
        /\ UNCHANGED <<logs, issued, lissued, env, gone>>

\* ------------------------------------------------------------ batch geocoding
\* an entry of req.body.villages: an object with a name and perhaps a
\* district, or the JSON value null
VillageEntry(name, district) == [kind |-> "object", name |-> name, district |-> district]
NullEntry == [kind |-> "null", name |-> Null, district |-> "null"]

\* POST /api/geocode/batch: the body has a villages array or it has not
StartBatch(p, isArray, villages) ==
    /\ ~Running(rq[p])
    /\ Set(p, IF ~isArray
              THEN [Arrive("geocode-batch") EXCEPT !.ret = "bad_request", !.pc = "respond"]
              ELSE [Arrive("geocode-batch") EXCEPT
                       !.villages = villages, !.queue = villages,
                       !.pc = IF villages = <<>> THEN "respond" ELSE "batch_geo"])
    /\ UNCHANGED <<storeVars, env, gone>>

\* geocodeVillagesBatch, one turn of the loop.  What geocodeVillage throws is
\* caught and recorded for the entry.  For a null entry village.name throws in
\* the try block and again in the catch block (the console.error line reads
\* village.name), so the error leaves the function and reaches the route.
BatchGeocode(p) ==
    LET r == rq[p]
        village == Head(r.queue)
        rest == Tail(r.queue)
        push(x, success, status) ==
            [x EXCEPT !.queue = rest,
                      !.results = Append(@, [village |-> village, success |-> success,
                                             status |-> status]),
                      !.pc = IF rest = <<>> THEN "respond" ELSE "batch_geo"]
    IN  /\ r.pc = "batch_geo"
        /\ IF village.kind = "null"
           THEN Set(p, Throw(r, PlainError))
           ELSE \E result \in geocodeVillage(env) :
                  Set(p, push([GeocodeCalled(r) EXCEPT !.geo = result],
                              result.kind = "success",
                              IF result.kind = "thrown" THEN "error" ELSE result.kind))
        /\ UNCHANGED <<storeVars, env, gone>>

\* ------------------------------------------------------------ responding
\* the body and status each route handler sends once its awaits are over
RouteResponse(r) ==
    CASE r.ep = "process-notice" ->
           IF r.err.thrown
           THEN Json(500, {"success", "error", "message", "code"},
                     OrElseAtom(r.err.code, "PROCESSING_ERROR"), "false")
           ELSE Json(200, {"success", "message", "data"}, "null", "true")
      [] r.ep = "extract-raw-text" ->
           IF r.err.thrown
           THEN Json(500, {"error", "message", "code"},
                     OrElseAtom(r.err.code, "RAW_TEXT_EXTRACTION_ERROR"), "null")
           ELSE Json(200, {"success", "message", "data"}, "null", "true")
      [] r.ep = "process-with-gemini" ->
           IF r.err.thrown
           THEN Json(500, {"success", "error", "code"},
                     OrElseAtom(r.err.code, "GEMINI_PROCESSING_ERROR"), "false")
           ELSE Json(200, {"success", "message", "data"}, "null", "true")
      [] r.ep = "save-notice" ->
           IF r.err.thrown
           THEN Json(500, {"error", "message", "code"},
                     OrElseAtom(r.err.code, "SAVE_ERROR"), "null")
           ELSE Json(200, {"success", "message", "data"}, "null", "true")
      [] r.ep = "get-notices" ->
           IF r.list.kind = "error"
           THEN Json(500, {"error", "message"}, "null", "null")
           ELSE Json(200, {"success", "notices", "data", "pagination"}, "null", "true")
      [] r.ep = "get-notice" ->
           IF r.out.kind = "error"
           THEN Json(500, {"error", "message"}, "null", "null")
           ELSE IF r.out.kind = "null"
           THEN Json(404, {"error", "code"}, "NOT_FOUND", "null")
           ELSE Json(200, {"success", "data"}, "null", "true")
      [] r.ep = "refine-notice" ->
           IF r.err.thrown
           THEN Json(500, {"success", "error", "message", "code"},
                     OrElseAtom(r.err.code, "REFINEMENT_ERROR"), "false")
           ELSE IF r.out.kind = "null"
           THEN Json(404, {"error", "code"}, "NOT_FOUND", "null")
           ELSE Json(200, {"success", "message", "data"}, "null", "true")
      [] r.ep = "geocode-batch" ->
           IF r.err.thrown
           THEN Json(500, {"error", "details"}, "null", "null")
           ELSE IF r.ret = "bad_request"
           THEN Json(400, {"error"}, "null", "null")
           ELSE Json(200, {"success", "results"}, "null", "true")
      [] r.ep = "geocode-existing" ->
           IF r.err.thrown
           THEN Json(500, {"error", "details"}, "null", "null")
           ELSE Json(200, {"success", "message", "results"}, "null", "true")
      [] OTHER ->
           IF r.err.thrown
           THEN Json(500, {"error", "message", "code"},
                     OrElseAtom(r.err.code, "DELETE_ERROR"), "null")
           ELSE IF r.ret = "false"
           THEN Json(404, {"error", "code"}, "NOTICE_NOT_FOUND", "null")
           ELSE Json(200, {"success", "message", "data"}, "null", "true")

\* the handler resumes after its last await: it answers, and the upload routes
\* clean up (finally { unlinkSync } on two of them, fs.unlink(path, cb) on
\* /api/process-with-gemini)
Respond(p) ==
    LET r == rq[p]
        answered == [r EXCEPT !.resp = RouteResponse(r),
                              !.post = [records |-> records, logs |-> logs]]
    IN  /\ r.pc = "respond"
        /\ Set(p, IF r.ep \in {"process-notice", "extract-raw-text"}
                  THEN [answered EXCEPT !.file = UnlinkIfExists(@), !.pc = "done"]
                  ELSE IF r.ep = "process-with-gemini"
                  THEN [answered EXCEPT !.file.pending = TRUE, !.pc = "unlinking"]
                  ELSE [answered EXCEPT !.pc = "done"])
        /\ UNCHANGED <<storeVars, env, gone>>

\* fs.unlink(path, callback) completes; a missing file is only logged
UnlinkCallback(p) ==
    LET r == rq[p]
    IN  /\ r.pc = "unlinking"
        /\ Set(p, [r EXCEPT !.file = [UnlinkIfExists(@) EXCEPT !.pending = FALSE],
                            !.pc = "done"])
        /\ UNCHANGED <<storeVars, env, gone>>

\* ------------------------------------------------------- specifications
\* a request that may still draw an identifier from uuidv4()
MaySave(r) ==
    Running(r) /\ r.ep \in {"save-notice", "process-with-gemini"} /\ ~r.uuidTaken
\* the run has an identifier left for one more saving request
IdsLeft == issued + Cardinality({q \in Procs : MaySave(rq[q])}) < MaxIds

Confidences == {NoNum, Num(80)}

InitStore ==
    /\ records = EmptyStore
    /\ logs = {}
    /\ issued = 0
    /\ lissued = 0
    /\ gone = {}
    /\ rq = [p \in Procs |-> IdleReq]

\* one request at a time: the server answers a request before the next arrives
Quiet == \A q \in Procs : ~Running(rq[q])

\* the three upload routes
Init ==
    /\ InitStore
    /\ env \in Envs

Next ==
    \E p \in Procs :
        \/ \E ep \in UploadEndpoints, upload \in Uploads :
             /\ Quiet
             /\ ep = "process-with-gemini" => IdsLeft
             /\ StartUpload(p, ep, upload)
        \/ Multer(p)
        \/ Vanish(p)
        \/ validateImageFile(p)
        \/ UploadHandler(p)
        \/ OcrNotice(p)
        \/ getRawOCRText(p)
        \/ processWithGemini(p)
        \/ refineExtractedDataWithGemini(p)
        \/ PerfectCoordinatesAI(p)
        \/ PerfectCoordinatesGeo(p)
        \/ Geocode(p)
        \/ SaveSet(p)
        \/ SaveLog(p)
        \/ Respond(p)
        \/ UnlinkCallback(p)

Spec == Init /\ [][Next]_vars

\* the routes over the stored notices
StoreEnvs == {DefaultEnv, [DefaultEnv EXCEPT !.mapsKey = FALSE]}
InitStoreRoutes ==
    /\ InitStore
    /\ env \in StoreEnvs

NextStore ==
    \E p \in Procs :
        \/ \E hasBody \in BOOLEAN, extractedData \in SaveBodies,
              confidenceScore \in Confidences :
             /\ Quiet
             /\ IdsLeft
             /\ StartSave(p, hasBody, extractedData, confidenceScore)
        \/ SaveHandler(p)
        \/ SaveSet(p)
        \/ SaveLog(p)
        \/ Geocode(p)
        \/ UpdateLocation(p)
        \/ \E id \in Ids : Quiet /\ StartGet(p, id)
        \/ ReadOne(p)
        \/ Quiet /\ StartList(p)
        \/ ReadList(p)
        \/ \E id \in Ids : Quiet /\ StartDelete(p, id)
        \/ DeleteGet(p)
        \/ DeleteDoc(p)
        \/ DeleteQuery(p)
        \/ DeleteCommit(p)
        \/ Respond(p)

SpecStore == InitStoreRoutes /\ [][NextStore]_vars

\* saving a notice date and reading it back, on servers in several time zones
FormatDMY(d, m, y) == Pad(d, 2) \o <<"/">> \o Pad(m, 2) \o <<"/">> \o Pad(y, 4)
NoticeDates ==
    { [d |-> 18, m |-> 7, y |-> 2025], [d |-> 29, m |-> 2, y |-> 2024],
      [d |-> 1, m |-> 1, y |-> 2025], [d |-> 31, m |-> 12, y |-> 2024],
      [d |-> 1, m |-> 3, y |-> 2025], [d |-> 30, m |-> 4, y |-> 1999] }
DateBodies ==
    {[EmptyED EXCEPT !.notice_date = FormatDMY(x.d, x.m, x.y)] : x \in NoticeDates}

InitDate ==
    /\ InitStore
    /\ env \in {[DefaultEnv EXCEPT !.tz = z] : z \in TZOffsets}

NextDate ==
    \E p \in Procs :
        \/ \E extractedData \in DateBodies :
             /\ Quiet
             /\ IdsLeft
             /\ StartSave(p, TRUE, extractedData, NoNum)
        \/ SaveHandler(p)
        \/ SaveSet(p)
        \/ SaveLog(p)
        \/ \E id \in Ids : Quiet /\ StartGet(p, id)
        \/ ReadOne(p)
        \/ Quiet /\ StartList(p)
        \/ ReadList(p)
        \/ Respond(p)

SpecDate == InitDate /\ [][NextDate]_vars

\* parseGeminiResponse over response texts of up to MaxPieces pieces
MaxPieces == 3
Pieces ==
    {Prose, FenceJson, Fence, Broken} \cup {JsonText(n) : n \in 0..Len(JsonValues)}
Responses == UNION {[1..n -> Pieces] : n \in 0..MaxPieces}

ParseResponse(p) ==
    /\ rq[p].pc = "parse"
    /\ rq' = [rq EXCEPT ![p].parsed = parseGeminiResponse(rq[p].text),
                        ![p].pc = "parsed"]
    /\ UNCHANGED <<records, logs, issued, lissued, env, gone>>

InitParse ==
    /\ records = EmptyStore
    /\ logs = {}
    /\ issued = 0
    /\ lissued = 0
    /\ gone = {}
    /\ env = DefaultEnv
    /\ rq \in [Procs -> {[IdleReq EXCEPT !.ep = "parse", !.pc = "parse", !.text = t] :
                             t \in Responses}]

NextParse == \E p \in Procs : ParseResponse(p)

SpecParse == InitParse /\ [][NextParse]_vars

\* refineExtractedDataWithGemini over extracted data of every shape
RefineInputs ==
    {[EmptyED EXCEPT !.village_name = v, !.survey_number = n, !.notice_date = d,
                     !.latitude = c, !.longitude = c, !.district = "Rajkot"] :
        v \in {Null, VillageRibda, <<"g", "a", "m", " ", "r", "i", "b", "d", "a">>},
        n \in {"null", "12"}, d \in {Null, DateJuly18}, c \in {NoNum, Num(2230)}}

RefineOnly(p) ==
    LET r == rq[p]
    IN  /\ r.pc = "refine_only"
        /\ IF env.geminiKey = "missing"
           THEN Set(p, [r EXCEPT !.refined = r.data, !.outcome = "skipped",
                                 !.pc = "refined"])
           ELSE \E o \in RefineOutcomes, refinedData \in Refinements :
                  Set(p, [r EXCEPT !.refined = RefineResult(r.data, o, refinedData),
                                   !.outcome = o,
                                   !.answer = IF o = "parsed" THEN refinedData
                                              ELSE NoRefinement,
                                   !.calls = Append(@, "refine"),
                                   !.pc = "refined"])
        /\ UNCHANGED <<storeVars, env, gone>>

InitRefine ==
    /\ records = EmptyStore
    /\ logs = {}
    /\ issued = 0
    /\ lissued = 0
    /\ gone = {}
    /\ env \in {[DefaultEnv EXCEPT !.geminiKey = k] : k \in {"set", "missing"}}
    /\ rq \in [Procs -> {[IdleReq EXCEPT !.ep = "refine", !.pc = "refine_only",
                                         !.data = d] : d \in RefineInputs}]

NextRefine == \E p \in Procs : RefineOnly(p)

SpecRefine == InitRefine /\ [][NextRefine]_vars

\* getPerfectCoordinatesWithGemini over villages with and without a district
CoordInputs ==
    {[EmptyED EXCEPT !.village_name = v, !.district = d] :
        v \in {VillageRibda, <<"g", "a", "m", " ", "r", "i", "b", "d", "a">>},
        d \in {"null", "Rajkot", "Jamnagar"}}

InitCoords ==
    /\ records = EmptyStore
    /\ logs = {}
    /\ issued = 0
    /\ lissued = 0
    /\ gone = {}
    /\ env \in {DefaultEnv, [DefaultEnv EXCEPT !.geminiKey = "missing"],
                [DefaultEnv EXCEPT !.mapsKey = FALSE]}
    /\ rq \in [Procs -> {[IdleReq EXCEPT !.ep = "coordinates", !.pc = "coord_ai",
                                         !.data = d, !.refined = d] : d \in CoordInputs}]

NextCoords == \E p \in Procs : PerfectCoordinatesAI(p) \/ PerfectCoordinatesGeo(p)

SpecCoords == InitCoords /\ [][NextCoords]_vars

\* POST /api/geocode/batch over lists of up to MaxBatch entries
MaxBatch == 3
BatchEntries ==
    {VillageEntry(VillageRibda, "Rajkot"),
     VillageEntry(<<"g", "a", "m", " ", "r", "i", "b", "d", "a">>, "null"),
     NullEntry}
BatchLists == UNION {[1..n -> BatchEntries] : n \in 0..MaxBatch}

InitBatch ==
    /\ InitStore
    /\ env \in {DefaultEnv, [DefaultEnv EXCEPT !.mapsKey = FALSE]}

NextBatch ==
    \E p \in Procs :
        \/ \E isArray \in BOOLEAN, villages \in BatchLists :
             /\ Quiet
             /\ ~isArray => villages = <<>>
             /\ StartBatch(p, isArray, villages)
        \/ BatchGeocode(p)
        \/ Respond(p)

SpecBatch == InitBatch /\ [][NextBatch]_vars

\* the two cleaners over names made of up to MaxWords pieces
MaxWords == 3
NamePieces ==
    {WGam, WMoje, WNa, WNi, WSurvey, WRevenue, WNumber, <<" ">>, <<"1">>, VillageRibda}
RECURSIVE Concat(_)
Concat(ws) == IF ws = <<>> THEN <<>> ELSE Head(ws) \o Concat(Tail(ws))
VillageNames == {Concat(ws) : ws \in UNION {[1..n -> NamePieces] : n \in 0..MaxWords}}

\* the script cleans a name, and cleans the result again
CleanTwice(p) ==
    /\ rq[p].pc = "clean"
    /\ rq' = [rq EXCEPT ![p].once = cleanVillageName(rq[p].name),
                        ![p].twice = cleanVillageName(cleanVillageName(rq[p].name)),
                        ![p].ep = "cleanVillageName",
                        ![p].pc = "cleaned"]
    /\ UNCHANGED <<storeVars, env, gone>>

\* the geocoding service cleans a name, and cleans the result again
CleanForGeocodingTwice(p) ==
    /\ rq[p].pc = "clean"
    /\ rq' = [rq EXCEPT
                 ![p].once = cleanVillageNameForGeocoding(rq[p].name),
                 ![p].twice = cleanVillageNameForGeocoding(
                                  cleanVillageNameForGeocoding(rq[p].name)),
                 ![p].ep = "cleanVillageNameForGeocoding",
                 ![p].pc = "cleaned"]
    /\ UNCHANGED <<storeVars, env, gone>>

InitClean ==
    /\ records = EmptyStore
    /\ logs = {}
    /\ issued = 0
    /\ lissued = 0
    /\ gone = {}
    /\ env = DefaultEnv
    /\ rq \in [Procs -> {[IdleReq EXCEPT !.ep = "clean", !.pc = "clean", !.name = n] :
                             n \in VillageNames}]

NextClean == \E p \in Procs : CleanTwice(p) \/ CleanForGeocodingTwice(p)

SpecClean == InitClean /\ [][NextClean]_vars

\* postProcessVillageNames over the same names and two longer ones, on which
\* the pattern extraction finds a second match
LongNames ==
    {Concat(<<VillageRibda, <<" ">>, WGam, <<" ">>, <<"v", "i">>, WNa, <<" ">>, WGam,
              <<" ">>, <<"k", "o">>, WNa>>),
     Concat(<<VillageRibda, <<" ">>, VillageRibda, <<" ">>, <<"k", "o", "t", "d", "a">>>>)}
PostNames == (VillageNames \cup LongNames) \ {<<>>}

PostProcess(p) ==
    /\ rq[p].pc = "post"
    /\ rq' = [rq EXCEPT
                 ![p].once = postProcessVillageNames(
                                 [EmptyED EXCEPT !.village_name = rq[p].name]).village_name,
                 ![p].pc = "posted"]
    /\ UNCHANGED <<storeVars, env, gone>>

InitPost ==
    /\ records = EmptyStore
    /\ logs = {}
    /\ issued = 0
    /\ lissued = 0
    /\ gone = {}
    /\ env = DefaultEnv
    /\ rq \in [Procs -> {[IdleReq EXCEPT !.ep = "post", !.pc = "post", !.name = n] :
                             n \in PostNames}]

NextPost == \E p \in Procs : PostProcess(p)

SpecPost == InitPost /\ [][NextPost]_vars

\* save, refine and geocoding-sweep routes over one store
MaintBodies ==
    { [EmptyED EXCEPT !.village_name = VillageRibda, !.survey_number = "367",
                      !.notice_date = DateJuly18, !.district = "Rajkot"],
      [EmptyED EXCEPT !.survey_number = "12", !.latitude = Num(2230)] }

\* the records these routes are run over
MaintIds == 1

InitMaint ==
    /\ InitStore
    /\ env \in StoreEnvs

NextMaint ==
    \E p \in Procs :
        \/ \E extractedData \in MaintBodies :
             /\ Quiet
             /\ IdsLeft
             /\ issued < MaintIds
             /\ StartSave(p, TRUE, extractedData, NoNum)
        \/ SaveHandler(p)
        \/ SaveSet(p)
        \/ SaveLog(p)
        \/ Geocode(p)
        \/ UpdateLocation(p)
        \/ \E id \in Ids : Quiet /\ StartRefine(p, id)
        \/ RefineGet(p)
        \/ refineExtractedDataWithGemini(p)
        \/ PerfectCoordinatesAI(p)
        \/ PerfectCoordinatesGeo(p)
        \/ RefineUpdate(p)
        \/ RefineLocation(p)
        \/ Quiet /\ StartSweep(p)
        \/ SweepQuery(p)
        \/ SweepGeocode(p)
        \/ \E id \in Ids : Quiet /\ StartGet(p, id)
        \/ ReadOne(p)
        \/ Respond(p)

SpecMaint == InitMaint /\ [][NextMaint]_vars

\* requests in flight together: NRacers handlers over one store, their store
\* steps interleaved in every order; one record is saved
NRacers == 2
Racers == 1..NRacers
RaceIds == 1
RaceBody ==
    [EmptyED EXCEPT !.village_name = VillageRibda, !.survey_number = "367",
                    !.district = "Rajkot"]

InitRace ==
    /\ records = EmptyStore
    /\ logs = {}
    /\ issued = 0
    /\ lissued = 0
    /\ gone = {}
    /\ env = DefaultEnv
    /\ rq = [p \in Racers |-> IdleReq]

NextRace ==
    \E p \in Racers :
        \/ /\ issued + Cardinality({q \in Racers : MaySave(rq[q])}) < RaceIds
           /\ StartSave(p, TRUE, RaceBody, NoNum)
        \/ SaveHandler(p)
        \/ SaveSet(p)
        \/ SaveLog(p)
        \/ Geocode(p)
        \/ UpdateLocation(p)
        \/ \E id \in 1..RaceIds : StartDelete(p, id)
        \/ DeleteGet(p)
        \/ DeleteDoc(p)
        \/ DeleteQuery(p)
        \/ DeleteCommit(p)
        \/ Respond(p)

SpecRace == InitRace /\ [][NextRace]_vars

\* a writer and a deleter in flight together: the writer saves and then
\* refines or sweeps once, while the deleter removes the record
Writer == CHOOSE p \in Racers : \A q \in Racers : p <= q
Deleter == CHOOSE p \in Racers : \A q \in Racers : q <= p
SaveAnswered == rq[Writer].ep = "save-notice" /\ rq[Writer].pc = "done"

NextInFlight ==
    \/ /\ issued + Cardinality({q \in Racers : MaySave(rq[q])}) < RaceIds
       /\ StartSave(Writer, TRUE, RaceBody, NoNum)
    \/ SaveHandler(Writer)
    \/ SaveSet(Writer)
    \/ SaveLog(Writer)
    \/ Geocode(Writer)
    \/ UpdateLocation(Writer)
    \/ SaveAnswered /\ \E id \in 1..RaceIds : StartRefine(Writer, id)
    \/ RefineGet(Writer)
    \/ refineExtractedDataWithGemini(Writer)
    \/ PerfectCoordinatesAI(Writer)
    \/ PerfectCoordinatesGeo(Writer)
    \/ RefineUpdate(Writer)
    \/ RefineLocation(Writer)
    \/ SaveAnswered /\ StartSweep(Writer)
    \/ SweepQuery(Writer)
    \/ SweepGeocode(Writer)
    \/ Respond(Writer)
    \/ \E id \in 1..RaceIds : StartDelete(Deleter, id)
    \/ DeleteGet(Deleter)
    \/ DeleteDoc(Deleter)
    \/ DeleteQuery(Deleter)
    \/ DeleteCommit(Deleter)
    \/ Respond(Deleter)

SpecInFlight == InitRace /\ [][NextInFlight]_vars

\* ------------------------------------------------------------ properties
Answered(r) == r.pc = "done" /\ r.resp.status # 0
Returned(r) == r.pc \in {"respond", "unlinking", "done"}
InCalls(r, stage) == \E i \in 1..Len(r.calls) : r.calls[i] = stage

\* the store as request r left it: the store itself while r is being served,
\* the store at the moment of its response once r has been answered
StoreAfter(r) ==
    IF Running(r) THEN [records |-> records, logs |-> logs] ELSE r.post

SameCoreFields(a, b) ==
    /\ a.village_name = b.village_name
    /\ a.survey_number = b.survey_number
    /\ a.notice_date = b.notice_date
    /\ a.buyer_name = b.buyer_name

\* processPropertyNotice got past OCR and extraction and has returned or thrown
PastExtraction(r) ==
    r.ep = "process-notice" /\ Returned(r) /\ InCalls(r, "refine")

\* C2 as stated: once OCR and extraction succeeded processPropertyNotice
\* returns success whatever refinement and the coordinate lookup did, and when
\* refinement failed every extracted field comes back with its extracted value
C2_AllFieldsKept ==
    \A p \in Procs :
        PastExtraction(rq[p]) =>
            /\ ~rq[p].err.thrown
            /\ rq[p].ret = "true"
            /\ rq[p].data.refinement_applied = "false" =>
                 /\ SameCoreFields(rq[p].data, rq[p].extracted)
                 /\ rq[p].data.district = rq[p].extracted.district
                 /\ rq[p].data.taluka = rq[p].extracted.taluka

\* C2 amended: success whatever refinement and the coordinate lookup did; when
\* refinement failed every extracted field other than district and taluka
\* comes back with its extracted value, and district and taluka do too unless
\* the coordinate lookup succeeded
C2_FieldsKeptButDistrict ==
    \A p \in Procs :
        PastExtraction(rq[p]) =>
            /\ ~rq[p].err.thrown
            /\ rq[p].ret = "true"
            /\ Answered(rq[p]) => rq[p].resp.status = 200
            /\ rq[p].data.refinement_applied = "false" =>
                 /\ SameCoreFields(rq[p].data, rq[p].extracted)
                 /\ rq[p].data.geocoding_status # "success_perfect" =>
                      /\ rq[p].data.district = rq[p].extracted.district
                      /\ rq[p].data.taluka = rq[p].extracted.taluka

\* refinement failed, the coordinate lookup failed too, and the request was
\* answered 200 with the extracted village name
C2_Witness ==
    \E p \in Procs :
        /\ PastExtraction(rq[p])
        /\ Answered(rq[p])
        /\ rq[p].data.refinement_applied = "false"
        /\ rq[p].data.geocoding_status = "failed_perfect_attempt"
        /\ rq[p].data.village_name = VillageRibda

\* C3: when the Vision API returns no text annotation the request fails with
\* NO_TEXT_DETECTED, the OCR call is the only stage that ran, and the request
\* wrote no record and no processing-log entry, at both OCR entry points
C3_NoTextStopsPipeline ==
    \A p \in Procs :
        rq[p].ocr = "no_annotations" =>
            /\ rq[p].err.thrown
            /\ rq[p].err.code = "NO_TEXT_DETECTED"
            /\ rq[p].calls = <<"ocr">>
            /\ Returned(rq[p])
            /\ ~rq[p].uuidTaken
            /\ rq[p].saved = 0
            /\ StoreAfter(rq[p]) = rq[p].pre

\* a /api/process-with-gemini request ended on an image without text
C3_Witness ==
    \E p \in Procs :
        /\ rq[p].ep = "process-with-gemini"
        /\ rq[p].ocr = "no_annotations"
        /\ Answered(rq[p])

\* C4: a fatal failure is answered with the status of its class: 400 for an
\* image without text, 404 for a missing image file, 403 for an invalid AI
\* credential, 413 for an upload over the size limit
C4_StatusOfFailureClass ==
    \A p \in Procs :
        Answered(rq[p]) =>
            /\ rq[p].err.code = "NO_TEXT_DETECTED" =>
                 rq[p].resp.status = 400 /\ rq[p].resp.code = "NO_TEXT_DETECTED"
            /\ rq[p].err.code = "FILE_NOT_FOUND" => rq[p].resp.status = 404
            /\ rq[p].err.code = "GEMINI_API_KEY_INVALID" => rq[p].resp.status = 403
            /\ rq[p].err.code = "LIMIT_FILE_SIZE" => rq[p].resp.status = 413

\* a request ended in a failure its handler could not recover from
Failed(r) ==
    r.err.thrown \/ r.out.kind = "error" \/ r.list.kind = "error"

\* C5: every failure response carries an error field and a code field, and
\* no fatal failure is answered 200
C5_FailureBodies ==
    \A p \in Procs :
        Answered(rq[p]) =>
            /\ rq[p].resp.status >= 400 => {"error", "code"} \subseteq rq[p].resp.keys
            /\ Failed(rq[p]) => rq[p].resp.status # 200

GeocodingFailureStatuses == {"failed", "error", "not_found", "failed_perfect_attempt"}

\* C6: a /api/save-notice whose auto-geocoding fails still stores the record
\* and answers success, and the stored geocoding_status shows the failure
C6_GeocodingFailureStored ==
    \A p \in Procs :
        (rq[p].ep = "save-notice" /\ Answered(rq[p])
            /\ rq[p].geo.kind \in {"thrown", "not_found"}) =>
            /\ rq[p].resp.status = 200
            /\ rq[p].saved \in DOMAIN StoreAfter(rq[p]).records
            /\ StoreAfter(rq[p]).records[rq[p].saved].geocoding_status
                    \in GeocodingFailureStatuses

\* a deleted record is gone from the store, and so are its log entries
DeletedStayGone ==
    \A id \in gone :
        /\ GetPropertyNoticeById(records, id).kind = "null"
        /\ LogsOf(logs, id) = {}

\* what the delete and read routes show of it
DeleteOutcomes ==
    \A p \in Procs :
        /\ (rq[p].ep = "delete-notice" /\ rq[p].ret = "false") =>
              /\ rq[p].id \notin DOMAIN rq[p].pre.records
              /\ StoreAfter(rq[p]) = rq[p].pre
        /\ (rq[p].ep = "delete-notice" /\ rq[p].ret = "true") =>
              /\ rq[p].id \in DOMAIN rq[p].pre.records
              /\ rq[p].id \in gone
        /\ (rq[p].ep = "get-notice" /\ Answered(rq[p]) /\ rq[p].out.kind = "null") =>
              rq[p].resp.status = 404

\* a lookup of a deleted id that the store answers returns null
LookupAfterDelete ==
    \A p \in Procs :
        (rq[p].pc = "read_one" /\ rq[p].id \in gone /\ rq'[p].pc = "respond"
            /\ rq'[p].out.kind # "error") => rq'[p].out.kind = "null"

\* C7: once deletePropertyNotice(id) has returned true the store holds no
\* record and no processing-log entry for id, and every later lookup of id
\* returns null (GET /api/notices/:id answers 404); a delete of an id that has
\* no record returns false and leaves records and logs as they were
C7_DeleteRemovesRecordAndLogs ==
    [](DeletedStayGone /\ DeleteOutcomes) /\ [][LookupAfterDelete]_vars

\* DELETE /api/notices/:id was answered 200 for a record that had a
\* processing-log entry, and neither the record nor the entry is left
C7_Witness ==
    \E p \in Procs :
        /\ rq[p].ep = "delete-notice"
        /\ rq[p].ret = "true"
        /\ Answered(rq[p])
        /\ rq[p].resp.status = 200
        /\ LogsOf(rq[p].pre.logs, rq[p].id) # {}
        /\ LogsOf(StoreAfter(rq[p]).logs, rq[p].id) = {}
        /\ rq[p].id \notin DOMAIN StoreAfter(rq[p]).records

\* C8: the delete is atomic: in no reachable state is a record already
\* removed while processing-log entries that reference it still exist
C8_NoOrphanLogs ==
    \A id \in Ids : id \notin DOMAIN records => LogsOf(logs, id) = {}

\* savePropertyNotice has returned its record to the caller
SaveReturned(r) == r.saved # 0 /\ r.pc # "save_log"

\* what every successful save does to the records
SaveFrame(r) ==
    /\ r.saved \notin DOMAIN r.pre.records
    /\ LogsOf(r.pre.logs, r.saved) = {}
    /\ DOMAIN StoreAfter(r).records = DOMAIN r.pre.records \cup {r.saved}
    /\ \A x \in DOMAIN r.pre.records : StoreAfter(r).records[x] = r.pre.records[x]
    /\ r.pre.logs \subseteq StoreAfter(r).logs
    /\ \A l \in StoreAfter(r).logs \ r.pre.logs : l.property_notice_id = r.saved

\* C9 as stated: a successful savePropertyNotice creates exactly one new
\* record under an identifier no record used, appends one processing-log
\* entry that references it, and leaves every earlier record unchanged
C9_SaveAddsRecordAndLog ==
    \A p \in Procs :
        SaveReturned(rq[p]) =>
            /\ SaveFrame(rq[p])
            /\ Cardinality(StoreAfter(rq[p]).logs \ rq[p].pre.logs) = 1

\* C9 amended: a successful savePropertyNotice creates exactly one new record
\* under an identifier no record used, leaves every earlier record and log
\* entry unchanged, and appends at most one processing-log entry, which
\* references the new identifier (a failed log write is dropped)
C9_SaveAddsRecordAtMostOneLog ==
    \A p \in Procs :
        SaveReturned(rq[p]) =>
            /\ SaveFrame(rq[p])
            /\ Cardinality(StoreAfter(rq[p]).logs \ rq[p].pre.logs) <= 1

\* a save into a store that already held a record has returned and its log
\* entry was written
C9_Witness ==
    \E p \in Procs :
        /\ SaveReturned(rq[p])
        /\ Answered(rq[p])
        /\ rq[p].pre.records # EmptyStore
        /\ Cardinality(StoreAfter(rq[p]).logs \ rq[p].pre.logs) = 1

\* the calendar date a DD/MM/YYYY string names, written YYYY-MM-DD
CalendarDateOf(str) ==
    LET dateParts == Split(str, "/")
    IN  Pad(ParseInt(dateParts[3]).v, 4) \o <<"-">>
            \o Pad(ParseInt(dateParts[2]).v, 2) \o <<"-">>
            \o Pad(ParseInt(dateParts[1]).v, 2)

\* a record handed out by a read shows the date its extracted_data names
ReadsBackDate(view) ==
    view.notice_date = CalendarDateOf(view.extracted_data.notice_date)

\* C10: a record saved with a DD/MM/YYYY notice_date reads back, by single
\* read and by list, with that same calendar date, whatever the time-zone
\* offset of the server
C10_DateRoundTrip ==
    \A p \in Procs :
        /\ (rq[p].ep = "get-notice" /\ rq[p].out.kind = "doc") =>
              ReadsBackDate(rq[p].out.doc)
        /\ (rq[p].ep = "get-notices" /\ rq[p].list.kind = "list") =>
              \A i \in 1..Len(rq[p].list.list) : ReadsBackDate(rq[p].list.list[i])

\* C11: updatePropertyNotice stores for a notice_date string the value that
\* savePropertyNotice stores for it, whether or not the string is in D/M/Y
\* order
C11_UpdateStoresAsSave ==
    \A p \in Procs :
        (rq[p].ep = "refine-notice" /\ rq[p].ret = "updated") =>
            StoreAfter(rq[p]).records[rq[p].id].notice_date
                = SaveNoticeDate(rq[p].refined.notice_date, env.tz)

\* latitude and longitude are both present or both absent
CoordinatesPaired(doc) == doc.latitude.some <=> doc.longitude.some

\* C12: in every stored record, whatever save, location-update, refine and
\* geocoding-sweep operations have run, latitude and longitude are either
\* both present or both absent
C12_CoordinatesPaired ==
    \A id \in DOMAIN records : CoordinatesPaired(records[id])

\* the response went through parseGeminiResponse
Parsed(r) == r.ep = "parse" /\ r.pc = "parsed"

\* JSON.parse rejects the response once its fences are stripped
Unparseable(text) == ~JsonParse(StripFences(text)).ok

\* the part of the response from its first to its last brace is a JSON object
\* with a data member
BracedObjectWithData(text) ==
    /\ JsonParse(BraceMatch(text)).ok
    /\ JsonParse(BraceMatch(text)).value.hasData

\* the eleven fields are null, the confidence is 0.1, nothing is raised
IsEmptyStructure(result) ==
    /\ \A f \in ExtractionFields : result.data[f] = EmptyED[f]
    /\ result.confidence = ConfNum(10)
    /\ ~result.raised

\* C13 as stated: for every response that JSON.parse rejects after fence
\* stripping, parseGeminiResponse returns the eleven fields null with
\* confidence 0.1 and raises nothing
C13_UnparseableGivesEmpty ==
    \A p \in Procs :
        (Parsed(rq[p]) /\ Unparseable(rq[p].text)) => IsEmptyStructure(rq[p].parsed)

\* C13: for every response that JSON.parse rejects after fence stripping and
\* whose part between its first and last brace is not a JSON object with a
\* data member, parseGeminiResponse returns the eleven fields null with
\* confidence 0.1; it raises for no response at all
C13_UnparseableUnbracedGivesEmpty ==
    \A p \in Procs :
        Parsed(rq[p]) =>
            /\ ~rq[p].parsed.raised
            /\ (Unparseable(rq[p].text) /\ ~BracedObjectWithData(rq[p].text)) =>
                  IsEmptyStructure(rq[p].parsed)

C13_Witness ==
    \E p \in Procs :
        /\ Parsed(rq[p])
        /\ Unparseable(rq[p].text)
        /\ ~BracedObjectWithData(rq[p].text)
        /\ \E i \in 1..Len(rq[p].text) : rq[p].text[i] = Broken
        /\ IsEmptyStructure(rq[p].parsed)

\* a confidence between 0 and 1, in hundredths
InUnit(c) == c.kind = "num" /\ 0 <= c.v /\ c.v <= 100

\* C14: the confidence parseGeminiResponse returns lies in [0, 1] for every
\* response, on the direct path and on the fallback paths
C14_ConfidenceInUnit ==
    \A p \in Procs : Parsed(rq[p]) => InUnit(rq[p].parsed.confidence)

\* refineExtractedDataWithGemini has returned
Refined(r) == r.ep = "refine" /\ r.pc = "refined"

\* the members a refinement result adds to its input
RefinementMarks ==
    {"refinement_applied", "refinement_error", "refinement_confidence",
     "original_village_name", "original_survey_number", "original_notice_date",
     "original_latitude", "original_longitude"}

\* C15: when the refinement call fails or its response is not JSON,
\* refineExtractedDataWithGemini returns (it raises nothing) every input field
\* with its original value, refinement_applied false and a refinement_error
C15_FailedRefinementKeepsInput ==
    \A p \in Procs :
        rq[p].ep = "refine" =>
            /\ rq[p].err = NoErr
            /\ (Refined(rq[p]) /\ rq[p].outcome \in {"throws", "unparseable"}) =>
                  /\ \A f \in DOMAIN rq[p].data \ RefinementMarks :
                        rq[p].refined[f] = rq[p].data[f]
                  /\ rq[p].refined.refinement_applied = "false"
                  /\ rq[p].refined.refinement_error # "null"

C15_Witness ==
    \E p \in Procs :
        /\ Refined(rq[p])
        /\ rq[p].outcome = "unparseable"
        /\ Truthy(rq[p].data.village_name)
        /\ rq[p].refined.village_name = rq[p].data.village_name
        /\ rq[p].refined.refinement_applied = "false"

\* the members the answer can refine
RefinedFields == {"village_name", "survey_number", "notice_date", "latitude", "longitude"}

\* the result of a merge: input fields kept, refined ones replaced, the three
\* backups, the mark and the confidence
IsMerged(r) ==
    /\ \A f \in DOMAIN r.data \ (RefinementMarks \cup RefinedFields) :
          r.refined[f] = r.data[f]
    /\ \A f \in RefinedFields :
          r.refined[f] = IF f \in r.answer.keys THEN r.answer[f] ELSE r.data[f]
    /\ r.refined.original_village_name = r.data.village_name
    /\ r.refined.original_survey_number = r.data.survey_number
    /\ r.refined.original_notice_date = r.data.notice_date
    /\ r.refined.refinement_applied = "true"
    /\ r.refined.refinement_confidence =
          IF "confidence_score" \in r.answer.keys THEN r.answer.confidence_score ELSE NoNum

\* C16 as stated: whenever the refinement response parses as JSON, the result
\* is the merge: every input field, refined fields at their refined value,
\* the original village name, survey number and notice date kept aside,
\* refinement_applied true and refinement_confidence as the AI reported it
C16_ParsedRefinementMerged ==
    \A p \in Procs :
        (Refined(rq[p]) /\ rq[p].outcome \in {"parsed", "null"}) => IsMerged(rq[p])

\* C16: whenever the refinement response parses to a JSON object, the result
\* is the merge; a response that parses to null gives the failure result
C16_ObjectRefinementMerged ==
    \A p \in Procs :
        /\ (Refined(rq[p]) /\ rq[p].outcome = "parsed") => IsMerged(rq[p])
        /\ (Refined(rq[p]) /\ rq[p].outcome = "null") =>
              /\ rq[p].refined.refinement_applied = "false"
              /\ rq[p].refined.refinement_error # "null"

C16_Witness ==
    \E p \in Procs :
        /\ Refined(rq[p])
        /\ rq[p].outcome = "parsed"
        /\ rq[p].answer.keys = RefinementKeys
        /\ rq[p].data.village_name # rq[p].answer.village_name
        /\ Truthy(rq[p].data.village_name)
        /\ rq[p].refined.village_name = rq[p].answer.village_name
        /\ rq[p].refined.original_village_name = rq[p].data.village_name
        /\ rq[p].refined.refinement_confidence = Num(95)

\* getPerfectCoordinatesWithGemini, taken on its own, has returned
Located(r) == r.ep = "coordinates" /\ r.pc = "located"

\* both sources produced coordinates
BothSources(r) ==
    TruthyNum(r.aic.latitude) /\ TruthyNum(r.aic.longitude) /\ r.geo.kind = "success"

\* the result has the coordinates of x
SamePair(result, x) == result.latitude = x.latitude /\ result.longitude = x.longitude

\* the distance between the two sources, in metres
SourcesApart(r) ==
    calculateDistance(r.aic.latitude.v, r.aic.longitude.v,
                      r.geo.latitude.v, r.geo.longitude.v)

\* the confidence of each source: the geocoder reports none and counts as 0.8,
\* an AI answer without one counts as 0.7
GeocoderConfidence == 80
AIConfidence(r) == OrElseNum(r.aic.confidence_score, 70)

\* C17: when the AI and the geocoder both produce coordinates, at a distance
\* of at most 10 km the result has exactly the geocoder's coordinates and
\* records the distance; beyond 10 km it has the pair of the source with the
\* higher confidence and records the other pair as the alternative
C17_Reconciled ==
    \A p \in Procs :
        (Located(rq[p]) /\ BothSources(rq[p])) =>
            LET r == rq[p]
            IN  /\ r.perfect.success
                /\ r.perfect.coordinate_distance = Num(SourcesApart(r))
                /\ SourcesApart(r) <= CloseKm * 1000 => SamePair(r.perfect, r.geo)
                /\ (SourcesApart(r) > CloseKm * 1000 /\ AIConfidence(r) > GeocoderConfidence) =>
                      /\ SamePair(r.perfect, r.aic)
                      /\ SamePair(r.perfect.alternative_coordinates, r.geo)
                /\ (SourcesApart(r) > CloseKm * 1000 /\ GeocoderConfidence > AIConfidence(r)) =>
                      /\ SamePair(r.perfect, r.geo)
                      /\ SamePair(r.perfect.alternative_coordinates, r.aic)

C17_Witness ==
    \E p \in Procs :
        /\ Located(rq[p])
        /\ BothSources(rq[p])
        /\ SourcesApart(rq[p]) > CloseKm * 1000
        /\ AIConfidence(rq[p]) > GeocoderConfidence
        /\ SamePair(rq[p].perfect, rq[p].aic)
        /\ ~SamePair(rq[p].perfect, rq[p].geo)
        /\ SamePair(rq[p].perfect.alternative_coordinates, rq[p].geo)

\* the AI was asked for coordinates
AIAsked(r) == InCalls(r, "coordinates")

\* C18: when only one source succeeds the result is a success with that
\* source's coordinates: the AI's when the geocoder fails, with the AI's
\* confidence or 0.6 by default; the geocoder's when the AI produces no
\* coordinates, the geocoder then being asked
C18_OneSourceUsed ==
    \A p \in Procs :
        Located(rq[p]) =>
            LET r == rq[p]
                aiHas == TruthyNum(r.aic.latitude) /\ TruthyNum(r.aic.longitude)
            IN  /\ (aiHas /\ r.geo.kind # "success") =>
                      /\ r.perfect.success
                      /\ SamePair(r.perfect, r.aic)
                      /\ r.perfect.confidence_score
                            = Num(OrElseNum(r.aic.confidence_score, 60))
                /\ (AIAsked(r) /\ ~aiHas /\ env.mapsKey) =>
                      /\ InCalls(r, "geocode")
                      /\ r.geo.kind = "success" =>
                            (r.perfect.success /\ SamePair(r.perfect, r.geo))

\* a request to POST /api/geocode/batch that carried a villages array
BatchOf(r) == r.ep = "geocode-batch" /\ r.ret # "bad_request"

\* C19: geocodeVillagesBatch takes the entries one at a time in input order
\* and returns one result per entry, in that order; an entry whose geocoding
\* raises is recorded with success = false, for that entry only, and the
\* entries after it are still processed
C19_OneResultPerEntry ==
    \A p \in Procs :
        BatchOf(rq[p]) =>
            LET r == rq[p]
            IN  /\ Len(r.results) <= Len(r.villages)
                /\ \A i \in 1..Len(r.results) :
                      /\ r.results[i].village = r.villages[i]
                      /\ r.results[i].status = "error" => ~r.results[i].success
                /\ r.queue = SubSeq(r.villages, Len(r.results) + 1, Len(r.villages))
                /\ Answered(r) =>
                      /\ r.resp.status = 200
                      /\ Len(r.results) = Len(r.villages)

\* the failure each Vision outcome must end in
OcrFailureCodes ==
    \A p \in Procs :
        /\ rq[p].ocr = "api_error" => rq[p].err.code = "VISION_API_ERROR"
        /\ rq[p].ocr = "no_annotations" => rq[p].err.code = "NO_TEXT_DETECTED"
        /\ rq[p].ocr = "blank_text" => rq[p].err.code = "EMPTY_TEXT_DETECTED"

\* an entry point that starts on a missing file fails without an OCR call
MissingFileFails ==
    \A p \in Procs :
        (rq[p].pc \in {"ocr", "raw_ocr"} /\ ~rq[p].file.exists /\ rq'[p] # rq[p]) =>
            /\ rq'[p].err.code = "FILE_NOT_FOUND"
            /\ rq'[p].calls = rq[p].calls
            /\ rq'[p].ocr = "null"

\* C20: processPropertyNotice and getRawOCRText both fail with FILE_NOT_FOUND,
\* before any OCR call, when the image file is missing, with NO_TEXT_DETECTED
\* when the service returns no annotation, with EMPTY_TEXT_DETECTED when the
\* detected text is all whitespace, and with VISION_API_ERROR when the service
\* reports an error
C20_OcrFailures == []OcrFailureCodes /\ [][MissingFileFails]_vars

\* a record with a village name and without coordinates
LacksCoordinates(doc) ==
    Truthy(doc.village_name) /\ (~TruthyNum(doc.latitude) \/ ~TruthyNum(doc.longitude))

\* C21: a sweep (POST /api/geocode/existing) that is answered with success has
\* attempted geocoding for every record that had a village name and lacked
\* coordinates when the request arrived, whatever its geocoding_status
C21_SweepCoversAll ==
    \A p \in Procs :
        (rq[p].ep = "geocode-existing" /\ Answered(rq[p]) /\ rq[p].resp.status = 200) =>
            \A id \in DOMAIN rq[p].pre.records :
                LacksCoordinates(rq[p].pre.records[id]) =>
                    \E i \in 1..Len(rq[p].results) : rq[p].results[i].id = id

\* C22: both text cleaners are idempotent: for every name, cleaning the
\* cleaned name returns it unchanged
C22_CleanersIdempotent ==
    \A p \in Procs : rq[p].pc = "cleaned" => rq[p].twice = rq[p].once

\* C23 as stated: for every non-empty village_name the name that
\* postProcessVillageNames returns holds neither the survey word nor the
\* revenue word, and is not empty
C23_NoBoilerplateNotEmpty ==
    \A p \in Procs :
        rq[p].pc = "posted" =>
            /\ ~Includes(rq[p].once, WSurvey)
            /\ ~Includes(rq[p].once, WRevenue)
            /\ rq[p].once # <<>>

\* the order of the external calls of one pipeline invocation
CallOrder == <<"ocr", "extract", "refine", "coordinates", "geocode">>
CallRank(c) == CHOOSE i \in 1..Len(CallOrder) : CallOrder[i] = c
CallCount(r, c) == Cardinality({i \in 1..Len(r.calls) : r.calls[i] = c})

\* C24: within one invocation of processPropertyNotice the external calls are
\* issued in the order OCR, field extraction, refinement, coordinate estimate,
\* geocoder, each after the one before it has returned and none of them twice;
\* an invocation that returns a result has called the field extractor once
C24_CallsInOrder ==
    \A p \in Procs :
        rq[p].ep = "process-notice" =>
            /\ \A i, j \in 1..Len(rq[p].calls) :
                  i < j => CallRank(rq[p].calls[i]) < CallRank(rq[p].calls[j])
            /\ rq[p].ret = "true" => CallCount(rq[p], "extract") = 1

C24_Witness ==
    \E p \in Procs :
        /\ rq[p].ep = "process-notice"
        /\ Answered(rq[p])
        /\ rq[p].ret = "true"
        /\ rq[p].calls = CallOrder

\* C25: whatever save, update and refine operations have run, the stored
\* notice_date of every record is null or a calendar date, so that every
\* record can be read by getPropertyNoticeById without error
C25_StoredDatesReadable ==
    \A id \in DOMAIN records :
        /\ records[id].notice_date.kind \in {"null", "date"}
        /\ GetPropertyNoticeById(records, id).kind = "doc"

\* C26: when a save and a delete of the same identifier interleave in any order
\* of their store steps, once both have finished no processing-log entry is
\* left whose property_notice_id names a record that no longer exists
SaveFinished(r, id) == r.ep = "save-notice" /\ r.pc = "done" /\ r.saved = id
DeleteFinished(r, id) ==
    r.ep = "delete-notice" /\ r.pc = "done" /\ r.id = id /\ r.ret = "true"
OrphanLogs == {l \in logs : l.property_notice_id \notin DOMAIN records}
C26_NoOrphanLogs ==
    \A id \in 1..RaceIds : \A p, q \in Racers :
        SaveFinished(rq[p], id) /\ DeleteFinished(rq[q], id) => OrphanLogs = {}

\* C27: a record removed by deletePropertyNotice is never re-created by an
\* operation already in flight for its identifier (the location update of the
\* auto-geocoding in POST /save-notice, the updates of POST /refine-notice/:id,
\* the location update of the sweep): once deleted the record stays absent, and
\* a record comes into being only in a save, under a fresh identifier
DeletedAbsent == \A id \in gone : id \notin DOMAIN records
CreatedBySave ==
    \A id \in (DOMAIN records') \ (DOMAIN records) :
        /\ id = issued + 1
        /\ issued' = id
        /\ \E p \in Racers : rq[p].pc = "save_set" /\ rq'[p].saved = id
C27_DeletedStaysAbsent == []DeletedAbsent /\ [][CreatedBySave]_vars
\* an update in flight found its record deleted
MetDeleted(r, id) == r.lost /\ id \in gone /\ id \notin DOMAIN records
C27_Witness ==
    /\ rq[Writer].ep = "refine-notice"
    /\ rq[Writer].pc = "done"
    /\ MetDeleted(rq[Writer], rq[Writer].id)

\* C30: of the delete requests in flight together for one existing record, one
\* reports that a record existed (deletePropertyNotice returns true and the
\* route answers success) and every other one reports not-found: no two of
\* them report success for the same identifier
DeleteSucceeded(r, id) == DeleteFinished(r, id) /\ r.resp.status = 200
C30_OneDeleteSucceeds ==
    \A id \in 1..RaceIds : \A p, q \in Racers :
        DeleteSucceeded(rq[p], id) /\ DeleteSucceeded(rq[q], id) => p = q

\* C28: the confidence_score that processPropertyNotice returns lies in [0, 1]
\* (0..100 hundredths) for every combination of the extractor's confidence and
\* the refinement confidence the AI reports
NoticeReturned(r) == r.ep = "process-notice" /\ r.ret = "true"
C28_NoticeConfidenceInUnit ==
    \A p \in Procs :
        NoticeReturned(rq[p]) => rq[p].conf.some /\ rq[p].conf.v \in 0..100

\* C29: in every result of processPropertyNotice and of processImageWithGemini
\* the extracted data carries a latitude and a longitude only if its
\* geocoding_status is a success status; a failed, errored or skipped lookup
\* leaves no coordinates
SuccessStatuses == {"success", "success_perfect"}
HasCoordinates(d) == d.latitude.some \/ d.longitude.some
ResultGiven(r) ==
    /\ r.ep \in {"process-notice", "process-with-gemini"}
    /\ r.pc = "done"
    /\ r.resp.status = 200
C29_CoordinatesOnlyOnSuccess ==
    \A p \in Procs :
        ResultGiven(rq[p]) /\ HasCoordinates(rq[p].data)
            => rq[p].data.geocoding_status \in SuccessStatuses

====
